---- MODULE Spec2Model ----
(***************************************************************************)
(* A model of the routing engine (router/routing-engine): the pool graph,  *)
(* the LRU+TTL cache with amount bucketing, and the path search.           *)
(*                                                                         *)
(* Each component has its own specification over the shared variables:     *)
(*   SpecGraph      sequential upsert_pool calls and graph queries         *)
(*   SpecGraphConc  upsert_pool calls of several threads, interleaved at   *)
(*                  the lock operations of the source                      *)
(*   SpecCache      sequential calls of the route cache, with time         *)
(*   SpecBucket     one insert_route into a fresh cache, then lookups      *)
(*   SpecCacheConc  LruCache get and insert of several threads,            *)
(*                  interleaved at the shard locks and the deque mutex     *)
(*   SpecSearch     pools installed one by one, then the route searches    *)
(*   SpecChain      find_top_routes on a chain of pools, SpecChainFair     *)
(*                  with the loop of find_top_routes running on            *)
(*   SpecDirect     the single-hop searches over pools of one pair         *)
(*   SpecSplit      optimize_split_route on lists of candidate routes      *)
(*   SpecRouter     find_route and find_split_route of a Router            *)
(***************************************************************************)
EXTENDS Integers, Sequences, FiniteSets, TLC

VARIABLES
    \* PoolGraph (graph/pool_graph.rs)
    graph,          \* DiGraph<TokenNode, PoolEdge>: [nodes, edges]
    token_index,    \* DashMap<Address, NodeIndex>
    pool_index,     \* DashMap<pool_id, Vec<(NodeIndex, NodeIndex)>>
    last_update,    \* AtomicU64
    utc,            \* chrono::Utc::now().timestamp()
    calls,          \* upsert_pool calls made so far, in order (history)
    \* threads calling upsert_pool concurrently
    gpc,            \* position of each thread inside upsert_pool
    garg,           \* the pool a thread is upserting
    gnode,          \* the thread's locals node0, node1
    graph_lock,     \* RwLock writer: NoThread or the thread holding write()
    observed,       \* the edges a reader saw under graph.read()
    \* LruCache<RouteKey, Route> of EnhancedRouteCache (cache/lru_cache.rs)
    cache,          \* DashMap<K, CacheEntry<V>>
    access_order,   \* Mutex<VecDeque<K>>
    now,            \* Instant::now()
    stored,         \* history: per key, the insert still in force (not evicted)
    recency,        \* history: the stored keys, least recently used first
    last,           \* history: the latest cache call and what it returned
    \* threads calling the LruCache concurrently
    cpc,            \* position of each thread inside get or insert
    carg,           \* the key and value of the thread's call
    cpopped,        \* evict_lru's local key, popped from the deque
    shard_lock,     \* DashMap shard write locks: per key, the holder
    order_lock,     \* the access_order mutex: NoThread or the holder
    ccalls,         \* cache calls started so far
    \* a search in progress (routing/multi_hop.rs, routing/single_hop.rs)
    squery,         \* the arguments of the search
    sphase,         \* "idle", "loop" inside find_top_routes, "done"
    heap,           \* BinaryHeap<PathState>, in insertion order
    best_per_token, \* HashMap<Address, U256>
    completed_routes, \* Vec<Route>
    result,         \* the routes the search returned
    \* a call of optimize_split_route (routing/split.rs)
    split_call,     \* its arguments and what it returned
    \* Router (routing/router.rs)
    router,         \* its RouterConfig, once constructed
    split_cache,    \* LruCache<RouteKey, SplitRoute> of its cache: the map
    split_order,    \* and the access_order deque of that LruCache
    rcall,          \* the latest call of the router and what it returned
    quote_cache,    \* LruCache<QuoteKey, Quote> of its cache: the map
    quote_order,    \* and the access_order deque of that LruCache
    \* the HTTP handler (api/handlers.rs)
    api_cache,      \* RouteCache of the AppState: DashMap<String, CacheEntry>
    \* a call of compute_swap_step (utils/math.rs)
    swap_call,      \* its arguments and what it returned
    \* find_routes_parallel (routing/parallel.rs)
    par,            \* the call in progress and the tasks of its hop counts
    \* history
    served          \* what the calls of the router and of the handler were served from

graphVars == <<graph, token_index, pool_index, last_update, utc, calls>>
gthreadVars == <<gpc, garg, gnode, graph_lock, observed>>
cacheVars == <<cache, access_order, now, stored, recency, last>>
cthreadVars == <<cpc, carg, cpopped, shard_lock, order_lock, ccalls>>
searchVars == <<squery, sphase, heap, best_per_token, completed_routes, result>>
routerVars == <<split_call, router, split_cache, split_order, rcall>>
quoteVars == <<quote_cache, quote_order, api_cache, swap_call, par, served>>
vars == <<graphVars, gthreadVars, cacheVars, cthreadVars, searchVars, routerVars, quoteVars>>

----------------------------------------------------------------------------
(* Bounds of the model *)

NumTokens == 4
MaxCalls == 3
MaxUtc == 2
NumThreads == 2
MaxConcCalls == 2
MaxSize == 1
Ttl == 1
MaxNow == 2
MaxOrder == 3
MaxAccessCount == 1
MaxCacheCalls == 3

----------------------------------------------------------------------------
(* Generic helpers *)

Range(s) == {s[i] : i \in DOMAIN s}

\* DashMap::insert: add the key or overwrite its value
MapInsert(m, k, v) == [x \in DOMAIN m \cup {k} |-> IF x = k THEN v ELSE m[x]]

EmptyMap == [x \in {} |-> 0]

----------------------------------------------------------------------------
(* Tokens and pools (graph/node.rs, graph/edge.rs) *)

ZeroAddress == 0
Tokens == 1..NumTokens
NoThread == 0

\* Stands for 2^96: the unit of the sqrt-price fixed point, scaled so that
\* the products of the swap math fit the integers of the model checker.
\* Prices are then rounded more coarsely than in the source: an amount is
\* accurate to about liquidity / QScale units.
QScale == 1024
Q96 == QScale

\* PoolEdge::new: no hook
PoolEdgeNew(pool_id, token0, token1, fee, tick_spacing, liquidity, sqrt_price_x96, tick) ==
    [pool_id |-> pool_id, token0 |-> token0, token1 |-> token1, fee |-> fee,
     tick_spacing |-> tick_spacing, liquidity |-> liquidity,
     sqrt_price_x96 |-> sqrt_price_x96, tick |-> tick, hook_address |-> ZeroAddress]

\* PoolEdge::other_token; NoToken stands for None
NoToken == 0 - 1
other_token(pool, token) ==
    IF token = pool.token0 THEN pool.token1
    ELSE IF token = pool.token1 THEN pool.token0
    ELSE NoToken

\* The pools the callers of upsert_pool install: pool 1 in two states (the
\* second is a later state of the same pool), a pool whose token0 is the
\* larger address, and two pools on the same pair.
PoolUniverse ==
    { PoolEdgeNew(1, 1, 2, 3000, 1000, 20000, Q96, 0),
      PoolEdgeNew(1, 1, 2, 3000, 1000, 10000, Q96, 0),
      PoolEdgeNew(2, 3, 2, 3000, 2000, 10000, Q96, 0),
      PoolEdgeNew(3, 1, 3, 10000, 2000, 5000, Q96, 0),
      PoolEdgeNew(4, 1, 2, 500, 1000, 2000, Q96, 0) }

PoolIds == {p.pool_id : p \in PoolUniverse}

----------------------------------------------------------------------------
(* petgraph::DiGraph *)

EmptyGraph == [nodes |-> <<>>, edges |-> <<>>]

\* DiGraph::add_node: the new node gets the next index
AddNode(g, address) == [g EXCEPT !.nodes = Append(@, address)]

\* DiGraph::add_edge: always a new edge, parallel edges are allowed
AddEdge(g, a, b, weight) ==
    [g EXCEPT !.edges = Append(@, [source |-> a, target |-> b, weight |-> weight])]

\* DiGraph::edges(a): the outgoing edges of a among the first n edges, the
\* most recently added first
RECURSIVE OutEdgesUpTo(_, _, _)
OutEdgesUpTo(g, a, n) ==
    IF n = 0 THEN <<>>
    ELSE IF g.edges[n].source = a THEN <<g.edges[n]>> \o OutEdgesUpTo(g, a, n - 1)
    ELSE OutEdgesUpTo(g, a, n - 1)

OutEdges(g, a) == OutEdgesUpTo(g, a, Len(g.edges))

\* DiGraph::find_edge(a, b): the first outgoing edge of a that ends in b
NoEdge == [source |-> 0, target |-> 0, weight |-> [pool_id |-> 0]]
RECURSIVE FirstEdgeTo(_, _)
FirstEdgeTo(es, b) ==
    IF es = <<>> THEN NoEdge
    ELSE IF Head(es).target = b THEN Head(es)
    ELSE FirstEdgeTo(Tail(es), b)

FindEdge(g, a, b) == FirstEdgeTo(OutEdges(g, a), b)

----------------------------------------------------------------------------
(* PoolGraph *)

\* get_or_create_node, run without interruption
GetOrCreateNode(g, ti, address) ==
    IF address \in DOMAIN ti
    THEN [graph |-> g, token_index |-> ti, index |-> ti[address]]
    ELSE [graph |-> AddNode(g, address),
          token_index |-> MapInsert(ti, address, Len(g.nodes) + 1),
          index |-> Len(g.nodes) + 1]

\* the value upsert_pool stores in pool_index
PoolIndexEntry(node0, node1) == << <<node0, node1>>, <<node1, node0>> >>

\* get_pools_for_token
GetPoolsForToken(g, ti, token) ==
    IF token \in DOMAIN ti
    THEN [i \in 1..Len(OutEdges(g, ti[token])) |-> OutEdges(g, ti[token])[i].weight]
    ELSE <<>>

\* stats
Stats(g, lu) ==
    [token_count |-> Len(g.nodes),
     pool_count |-> Len(g.edges) \div 2,
     last_update |-> lu]

\* get_pool; NoPool stands for None
NoPool == [pool_id |-> 0]
GetPool(g, pi, pool_id) ==
    IF pool_id \in DOMAIN pi /\ pi[pool_id] # <<>>
    THEN LET first == Head(pi[pool_id])
             edge == FindEdge(g, first[1], first[2])
         IN  IF edge = NoEdge THEN NoPool ELSE edge.weight
    ELSE NoPool

\* petgraph::algo::has_path_connecting: the nodes reachable from start
RECURSIVE ReachableFrom(_, _)
ReachableFrom(g, seen) ==
    LET more == {e.target : e \in {x \in Range(g.edges) : x.source \in seen}}
    IN  IF more \subseteq seen THEN seen ELSE ReachableFrom(g, seen \cup more)

\* has_path
HasPath(g, ti, from, to) ==
    IF from \notin DOMAIN ti THEN FALSE
    ELSE IF to \notin DOMAIN ti THEN FALSE
    ELSE ti[to] \in ReachableFrom(g, {ti[from]})

----------------------------------------------------------------------------
(* Amount bucketing (cache/enhanced_route_cache.rs) *)

\* U256::to_string: the decimal digits of n, most significant first
RECURSIVE ToDecimalString(_)
ToDecimalString(n) ==
    IF n < 10 THEN <<n>> ELSE ToDecimalString(n \div 10) \o <<n % 10>>

\* the number a digit string denotes
RECURSIVE ParseDecimal(_)
ParseDecimal(str) ==
    IF str = <<>> THEN 0
    ELSE 10 * ParseDecimal(SubSeq(str, 1, Len(str) - 1)) + str[Len(str)]

\* "0".repeat(n)
Zeros(n) == [i \in 1..n |-> 0]

\* a bucketing that keeps one digit too many
bucket_amount_ThreeDigits(amount) ==
    LET amount_str == ToDecimalString(amount)
    IN  IF amount = 0 THEN <<0>>
        ELSE IF Len(amount_str) <= 3 THEN amount_str
        ELSE SubSeq(amount_str, 1, 3) \o Zeros(Len(amount_str) - 3)

\* the leading digits without the zeros that keep the length
bucket_amount_NoPadding(amount) ==
    LET amount_str == ToDecimalString(amount)
    IN  IF amount = 0 THEN <<0>>
        ELSE IF Len(amount_str) <= 2 THEN amount_str
        ELSE SubSeq(amount_str, 1, 2)

\* EnhancedRouteCache::bucket_amount
bucket_amount(amount) ==
    LET amount_str == ToDecimalString(amount)
    IN  IF amount = 0 THEN <<0>>
        ELSE IF Len(amount_str) <= 2 THEN amount_str
        ELSE SubSeq(amount_str, 1, 2) \o Zeros(Len(amount_str) - 2)

\* RouteKey as get_route and insert_route build it
RouteKey(token_in, token_out, amount, max_hops) ==
    [token_in |-> token_in, token_out |-> token_out,
     amount_bucket |-> bucket_amount(amount), max_hops |-> max_hops]

----------------------------------------------------------------------------
(* LruCache (cache/lru_cache.rs) *)

\* None, for a lookup that misses
Miss == [miss |-> TRUE]

\* DashMap::remove
MapRemove(m, k) == [x \in DOMAIN m \ {k} |-> m[x]]

\* VecDeque::remove(pos) for the first position that holds key, if any
RECURSIVE RemoveFirst(_, _)
RemoveFirst(order, key) ==
    IF order = <<>> THEN <<>>
    ELSE IF Head(order) = key THEN Tail(order)
    ELSE <<Head(order)>> \o RemoveFirst(Tail(order), key)

\* a TTL test that lets the entry live one tick longer
Fresh_Inclusive(entry, at) == at - entry.inserted_at <= Ttl

\* inserted_at.elapsed() < self.ttl
Fresh(entry, at) == at - entry.inserted_at < Ttl

\* LruCache::get: the map, the deque and the value returned
LruGet(c, order, key, at) ==
    IF key \in DOMAIN c
    THEN IF Fresh(c[key], at)
         THEN [cache |-> [c EXCEPT ![key].access_count = @ + 1],
               order |-> Append(RemoveFirst(order, key), key),
               result |-> c[key].value]
         ELSE [cache |-> MapRemove(c, key), order |-> order, result |-> Miss]
    ELSE [cache |-> c, order |-> order, result |-> Miss]

\* LruCache::evict_lru: the map, the deque and the key popped from the deque
NoKey == [none |-> TRUE]
EvictLru(c, order) ==
    IF order = <<>> THEN [cache |-> c, order |-> order, popped |-> NoKey]
    ELSE [cache |-> MapRemove(c, Head(order)), order |-> Tail(order), popped |-> Head(order)]

\* LruCache::insert
LruInsert(c, order, key, value, at) ==
    LET full == Cardinality(DOMAIN c) >= MaxSize
        ev == IF full THEN EvictLru(c, order)
              ELSE [cache |-> c, order |-> order, popped |-> NoKey]
        entry == [value |-> value, inserted_at |-> at, access_count |-> 0]
    IN  [cache |-> MapInsert(ev.cache, key, entry),
         order |-> Append(ev.order, key),
         full |-> full,
         popped |-> ev.popped]

\* a TTL test for which every entry has expired
FreshWithin_Never(entry, at, ttl) == FALSE

\* a TTL test that ends the life of an entry one tick early
FreshWithin_Shorter(entry, at, ttl) == at - entry.inserted_at < ttl - 1

\* inserted_at.elapsed() < self.ttl, for a cache built with the TTL ttl
FreshWithin(entry, at, ttl) == at - entry.inserted_at < ttl

\* LruCache::get of a cache built with LruCache::new(max_size, ttl)
LruGetWithin(c, order, key, at, ttl) ==
    IF key \in DOMAIN c
    THEN IF FreshWithin(c[key], at, ttl)
         THEN [cache |-> [c EXCEPT ![key].access_count = @ + 1],
               order |-> Append(RemoveFirst(order, key), key),
               result |-> c[key].value]
         ELSE [cache |-> MapRemove(c, key), order |-> order, result |-> Miss]
    ELSE [cache |-> c, order |-> order, result |-> Miss]

\* LruCache::insert after the eviction ev, if the cache was full
LruInsertEvicted(ev, key, value, at) ==
    [cache |-> MapInsert(ev.cache, key,
                         [value |-> value, inserted_at |-> at, access_count |-> 0]),
     order |-> Append(ev.order, key),
     popped |-> ev.popped]

\* LruCache::insert of a cache built with LruCache::new(max_size, ttl)
LruInsertUpTo(c, order, key, value, at, max_size) ==
    LruInsertEvicted(IF Cardinality(DOMAIN c) >= max_size THEN EvictLru(c, order)
                     ELSE [cache |-> c, order |-> order, popped |-> NoKey],
                     key, value, at)

\* LruCache::clear_expired: retain the entries younger than the TTL
ClearExpiredMap(c, at) == [k \in {x \in DOMAIN c : Fresh(c[x], at)} |-> c[k]]

\* the keys the concurrent callers use; each key has a DashMap shard of its
\* own, the least lock contention the map can have
ConcAmounts == {7, 123}
ConcKeys == {RouteKey(1, 2, amount, 2) : amount \in ConcAmounts}

----------------------------------------------------------------------------
(* The engine after construction *)

\* PoolGraph::new and LruCache::new, and no thread inside a call
Init ==
    /\ graph = EmptyGraph
    /\ token_index = EmptyMap
    /\ pool_index = EmptyMap
    /\ last_update = 0
    /\ utc = 0
    /\ calls = <<>>
    /\ gpc = [t \in 1..NumThreads |-> "idle"]
    /\ garg = [t \in 1..NumThreads |-> NoPool]
    /\ gnode = [t \in 1..NumThreads |-> <<0, 0>>]
    /\ graph_lock = NoThread
    /\ observed = <<>>
    /\ cache = EmptyMap
    /\ access_order = <<>>
    /\ now = 0
    /\ stored = EmptyMap
    /\ recency = <<>>
    /\ last = [op |-> "new"]
    /\ cpc = [t \in 1..NumThreads |-> "idle"]
    /\ carg = [t \in 1..NumThreads |-> NoKey]
    /\ cpopped = [t \in 1..NumThreads |-> NoKey]
    /\ shard_lock = [k \in ConcKeys |-> NoThread]
    /\ order_lock = NoThread
    /\ ccalls = 0
    /\ squery = [kind |-> "none"]
    /\ sphase = "idle"
    /\ heap = <<>>
    /\ best_per_token = EmptyMap
    /\ completed_routes = <<>>
    /\ result = [routes |-> <<>>]
    /\ split_call = [op |-> "none", calls |-> 0]
    /\ quote_cache = EmptyMap
    /\ quote_order = <<>>
    /\ api_cache = EmptyMap
    /\ served = [earlier |-> EmptyMap, inserts |-> EmptyMap, derived |-> EmptyMap,
                 stored_for |-> EmptyMap]
    /\ swap_call = [op |-> "none", calls |-> 0]
    /\ par = [phase |-> "idle", calls |-> 0]
    /\ router = [constructed |-> FALSE]
    /\ split_cache = EmptyMap
    /\ split_order = <<>>
    /\ rcall = [op |-> "none", calls |-> 0]

----------------------------------------------------------------------------
(* PoolGraph under sequential calls *)

\* upsert_pool called with the pool and the nodes of its two tokens, run
\* without interruption
upsert_pool(pool) ==
    LET r0 == GetOrCreateNode(graph, token_index, pool.token0)
        r1 == GetOrCreateNode(r0.graph, r0.token_index, pool.token1)
        g1 == AddEdge(r1.graph, r0.index, r1.index, pool)
        g2 == AddEdge(g1, r1.index, r0.index, pool)
    IN  /\ graph' = g2
        /\ token_index' = r1.token_index
        /\ pool_index' = MapInsert(pool_index, pool.pool_id, PoolIndexEntry(r0.index, r1.index))
        /\ last_update' = utc
        /\ calls' = Append(calls, pool)
        /\ UNCHANGED <<utc, gthreadVars, cacheVars, cthreadVars, searchVars, routerVars, quoteVars>>

\* one of the MaxCalls calls of upsert_pool
UpsertPool(pool) ==
    /\ Len(calls) < MaxCalls
    /\ upsert_pool(pool)

\* the wall clock moves on
UtcTick ==
    /\ utc < MaxUtc
    /\ utc' = utc + 1
    /\ UNCHANGED <<graph, token_index, pool_index, last_update, calls, gthreadVars, cacheVars, cthreadVars, searchVars, routerVars, quoteVars>>

NextGraph ==
    \/ \E pool \in PoolUniverse : UpsertPool(pool)
    \/ UtcTick

SpecGraph == Init /\ [][NextGraph]_vars

----------------------------------------------------------------------------
(* Properties of the pool graph under sequential calls *)

\* the state given by the latest upsert_pool call for pool_id
RECURSIVE LatestCall(_, _)
LatestCall(cs, pool_id) ==
    IF cs[Len(cs)].pool_id = pool_id THEN cs[Len(cs)]
    ELSE LatestCall(SubSeq(cs, 1, Len(cs) - 1), pool_id)

InstalledIds == {c.pool_id : c \in Range(calls)}
InstalledTokens == UNION {{c.token0, c.token1} : c \in Range(calls)}

\* the entries of a pool list that carry pool_id
RECURSIVE WithId(_, _)
WithId(pools, pool_id) ==
    IF pools = <<>> THEN <<>>
    ELSE IF Head(pools).pool_id = pool_id THEN <<Head(pools)>> \o WithId(Tail(pools), pool_id)
    ELSE WithId(Tail(pools), pool_id)

PoolsWithId(token, pool_id) ==
    WithId(GetPoolsForToken(graph, token_index, token), pool_id)

\* C1: after upsert_pool calls for the same pool_id, get_pools_for_token on
\* either endpoint returns exactly one edge with that pool_id, with the
\* state of the latest call, and the graph holds exactly the two directed
\* edges of the pool.
C1_UpsertReplaces ==
    \A pool_id \in InstalledIds :
        LET p == LatestCall(calls, pool_id)
        IN  /\ PoolsWithId(p.token0, pool_id) = <<p>>
            /\ PoolsWithId(p.token1, pool_id) = <<p>>
            /\ Cardinality({i \in DOMAIN graph.edges :
                               graph.edges[i].weight.pool_id = pool_id}) = 2

\* C2: stats() reports the number of distinct tokens and the number of
\* distinct pool ids installed.
C2_StatsCountDistinct ==
    /\ Stats(graph, last_update).token_count = Cardinality(InstalledTokens)
    /\ Stats(graph, last_update).pool_count = Cardinality(InstalledIds)

----------------------------------------------------------------------------
(* upsert_pool of several threads.  A thread moves from one shared access  *)
(* to the next: the lock-free token_index lookup, graph.write(), and the   *)
(* writes it makes under the lock.                                         *)

Threads == 1..NumThreads

\* a write lock that does not exclude other writers
WriteLockAvailable_NoExclusion(t) == TRUE

\* graph.write() returns only while no other thread holds the lock
WriteLockAvailable(t) == graph_lock = NoThread

\* graph.read() returns only while no writer holds the lock
ReadLockAvailable == graph_lock = NoThread

Active == {t \in Threads : gpc[t] # "idle"}

\* the pools the concurrent callers install: they share token 2
ConcurrentPools == {p \in PoolUniverse : p.pool_id \in {1, 2}}

\* get_or_create_node, line 40: token_index.get(&token.address), for token0
\* (k = 1) and token1 (k = 2)
NodeGetStep(t, k, pool) ==
    LET hit == IF k = 1 THEN "node1_get" ELSE "edges_lock"
        miss == IF k = 1 THEN "node0_lock" ELSE "node1_lock"
        address == IF k = 1 THEN pool.token0 ELSE pool.token1
    IN  IF address \in DOMAIN token_index
        THEN /\ gnode' = [gnode EXCEPT ![t][k] = token_index[address]]
             /\ gpc' = [gpc EXCEPT ![t] = hit]
        ELSE /\ gpc' = [gpc EXCEPT ![t] = miss]
             /\ gnode' = [gnode EXCEPT ![t][k] = 0]

\* a thread calls upsert_pool(pool, token0_node, token1_node) and looks up
\* token0
CallUpsert(t, pool) ==
    /\ gpc[t] = "idle"
    /\ Len(calls) + Cardinality(Active) < MaxConcCalls
    /\ garg' = [garg EXCEPT ![t] = pool]
    /\ NodeGetStep(t, 1, pool)
    /\ UNCHANGED <<graphVars, graph_lock, observed, cacheVars, cthreadVars, searchVars, routerVars, quoteVars>>

\* the lookup of token1
Node1Get(t) ==
    /\ gpc[t] = "node1_get"
    /\ NodeGetStep(t, 2, garg[t])
    /\ UNCHANGED <<graphVars, garg, graph_lock, observed, cacheVars, cthreadVars, searchVars, routerVars, quoteVars>>

\* get_or_create_node, line 44: graph.write()
NodeLock(t, k) ==
    /\ gpc[t] = (IF k = 1 THEN "node0_lock" ELSE "node1_lock")
    /\ WriteLockAvailable(t)
    /\ graph_lock' = t
    /\ gpc' = [gpc EXCEPT ![t] = IF k = 1 THEN "node0_add" ELSE "node1_add"]
    /\ UNCHANGED <<graphVars, garg, gnode, observed, cacheVars, cthreadVars, searchVars, routerVars, quoteVars>>

\* get_or_create_node, lines 45-47: add_node, token_index.insert, and the
\* write guard is dropped on return
NodeAdd(t, k) ==
    LET address == IF k = 1 THEN garg[t].token0 ELSE garg[t].token1
        index == Len(graph.nodes) + 1
    IN  /\ gpc[t] = (IF k = 1 THEN "node0_add" ELSE "node1_add")
        /\ graph' = AddNode(graph, address)
        /\ token_index' = MapInsert(token_index, address, index)
        /\ gnode' = [gnode EXCEPT ![t][k] = index]
        /\ graph_lock' = NoThread
        /\ gpc' = [gpc EXCEPT ![t] = IF k = 1 THEN "node1_get" ELSE "edges_lock"]
        /\ UNCHANGED <<pool_index, last_update, utc, calls, garg, observed, cacheVars, cthreadVars, searchVars, routerVars, quoteVars>>

\* upsert_pool, line 55: graph.write()
EdgesLock(t) ==
    /\ gpc[t] = "edges_lock"
    /\ WriteLockAvailable(t)
    /\ graph_lock' = t
    /\ gpc' = [gpc EXCEPT ![t] = "edge0_add"]
    /\ UNCHANGED <<graphVars, garg, gnode, observed, cacheVars, cthreadVars, searchVars, routerVars, quoteVars>>

\* upsert_pool, line 58: add_edge(node0, node1)
Edge0Add(t) ==
    /\ gpc[t] = "edge0_add"
    /\ graph' = AddEdge(graph, gnode[t][1], gnode[t][2], garg[t])
    /\ gpc' = [gpc EXCEPT ![t] = "edge1_add"]
    /\ UNCHANGED <<token_index, pool_index, last_update, utc, calls, garg, gnode,
                   graph_lock, observed, cacheVars, cthreadVars, searchVars, routerVars, quoteVars>>

\* upsert_pool, line 59: add_edge(node1, node0)
Edge1Add(t) ==
    /\ gpc[t] = "edge1_add"
    /\ graph' = AddEdge(graph, gnode[t][2], gnode[t][1], garg[t])
    /\ gpc' = [gpc EXCEPT ![t] = "index_insert"]
    /\ UNCHANGED <<token_index, pool_index, last_update, utc, calls, garg, gnode,
                   graph_lock, observed, cacheVars, cthreadVars, searchVars, routerVars, quoteVars>>

\* upsert_pool, lines 62-68: pool_index.insert, last_update.store, and the
\* write guard is dropped on return
IndexInsert(t) ==
    /\ gpc[t] = "index_insert"
    /\ pool_index' = MapInsert(pool_index, garg[t].pool_id,
                               PoolIndexEntry(gnode[t][1], gnode[t][2]))
    /\ last_update' = utc
    /\ calls' = Append(calls, garg[t])
    /\ graph_lock' = NoThread
    /\ gpc' = [gpc EXCEPT ![t] = "idle"]
    /\ UNCHANGED <<graph, token_index, utc, garg, gnode, observed, cacheVars, cthreadVars, searchVars, routerVars, quoteVars>>

\* a reader (get_pools_for_token, get_pool, has_path, stats) holds
\* graph.read() and sees the edges of the graph
Read ==
    /\ ReadLockAvailable
    /\ observed # graph.edges
    /\ observed' = graph.edges
    /\ UNCHANGED <<graphVars, gpc, garg, gnode, graph_lock, cacheVars, cthreadVars, searchVars, routerVars, quoteVars>>

NextGraphConc ==
    \/ \E t \in Threads, pool \in ConcurrentPools : CallUpsert(t, pool)
    \/ \E t \in Threads : Node1Get(t)
    \/ \E t \in Threads, k \in 1..2 : NodeLock(t, k)
    \/ \E t \in Threads, k \in 1..2 : NodeAdd(t, k)
    \/ \E t \in Threads : EdgesLock(t)
    \/ \E t \in Threads : Edge0Add(t)
    \/ \E t \in Threads : Edge1Add(t)
    \/ \E t \in Threads : IndexInsert(t)
    \/ Read

SpecGraphConc == Init /\ [][NextGraphConc]_vars

----------------------------------------------------------------------------
(* Properties of the pool graph under concurrent calls *)

\* how many edges of es run from a to b and carry pool_id
EdgeCount(es, a, b, pool_id) ==
    Cardinality({i \in DOMAIN es : /\ es[i].source = a
                                   /\ es[i].target = b
                                   /\ es[i].weight.pool_id = pool_id})

\* every pool has as many edges in one direction as in the other
BothDirections(es) ==
    \A i \in DOMAIN es :
        EdgeCount(es, es[i].source, es[i].target, es[i].weight.pool_id)
            = EdgeCount(es, es[i].target, es[i].source, es[i].weight.pool_id)

InsideWriteLock ==
    {t \in Threads : gpc[t] \in {"node0_add", "node1_add", "edge0_add", "edge1_add", "index_insert"}}

NodesOf(address) == {i \in DOMAIN graph.nodes : graph.nodes[i] = address}

\* C4: the graph holds one node per address, token_index points to it, and
\* once the calls have returned get_pools_for_token(address) returns an edge
\* of every pool installed for the address.
C4_TokenIndexUnique ==
    \A address \in Tokens :
        /\ Cardinality(NodesOf(address)) <= 1
        /\ address \in DOMAIN token_index => token_index[address] \in NodesOf(address)
        /\ Active = {} =>
              \A c \in Range(calls) :
                  address \in {c.token0, c.token1} =>
                      PoolsWithId(address, c.pool_id) # <<>>

----------------------------------------------------------------------------
(* EnhancedRouteCache.route_cache under sequential calls.  A Route is      *)
(* represented by the amount it was computed for.                          *)

\* the amounts the callers ask for: 123 and 129 share a bucket
Amounts == {7, 123, 129, 1234}
HopLimits == {2}

Route(amount) == [total_amount_in |-> amount]

\* the keys of seq without key
RECURSIVE Without(_, _)
Without(seq, key) ==
    IF seq = <<>> THEN <<>>
    ELSE IF Head(seq) = key THEN Without(Tail(seq), key)
    ELSE <<Head(seq)>> \o Without(Tail(seq), key)

\* the keys of seq that are in keep
RECURSIVE Restrict(_, _)
Restrict(seq, keep) ==
    IF seq = <<>> THEN <<>>
    ELSE IF Head(seq) \in keep THEN <<Head(seq)>> \o Restrict(Tail(seq), keep)
    ELSE Restrict(Tail(seq), keep)

\* EnhancedRouteCache::insert_route
InsertRoute(token_in, token_out, amount, max_hops) ==
    LET key == RouteKey(token_in, token_out, amount, max_hops)
        r == LruInsert(cache, access_order, key, Route(amount), now)
        evicted == IF r.popped \in DOMAIN cache THEN r.popped ELSE NoKey
    IN  /\ Len(access_order) < MaxOrder
        /\ cache' = r.cache
        /\ access_order' = r.order
        /\ stored' = MapInsert(MapRemove(stored, r.popped), key,
                               [value |-> Route(amount), at |-> now, amount |-> amount])
        /\ recency' = Append(Without(Without(recency, r.popped), key), key)
        /\ last' = [op |-> "insert", key |-> key, amount |-> amount, at |-> now,
                    full |-> r.full, evicted |-> evicted,
                    lru |-> IF recency = <<>> THEN NoKey ELSE Head(recency),
                    size |-> Cardinality(DOMAIN cache)]
        /\ UNCHANGED <<now, graphVars, gthreadVars, cthreadVars, searchVars, routerVars, quoteVars>>

\* EnhancedRouteCache::get_route
GetRoute(token_in, token_out, amount, max_hops) ==
    LET key == RouteKey(token_in, token_out, amount, max_hops)
        r == LruGet(cache, access_order, key, now)
    IN  /\ r.result # Miss => cache[key].access_count < MaxAccessCount
        /\ cache' = r.cache
        /\ access_order' = r.order
        /\ recency' = IF r.result # Miss THEN Append(Without(recency, key), key)
                      ELSE Without(recency, key)
        /\ last' = [op |-> "get", key |-> key, amount |-> amount, at |-> now,
                    result |-> r.result,
                    hits |-> IF key \in DOMAIN cache THEN cache[key].access_count ELSE 0]
        /\ UNCHANGED <<now, stored, graphVars, gthreadVars, cthreadVars, searchVars, routerVars, quoteVars>>

\* LruCache::clear_expired
ClearExpired ==
    /\ last.op # "clear_expired"
    /\ cache' = ClearExpiredMap(cache, now)
    /\ recency' = Restrict(recency, DOMAIN cache')
    /\ last' = [op |-> "clear_expired"]
    /\ UNCHANGED <<access_order, now, stored, graphVars, gthreadVars, cthreadVars, searchVars, routerVars, quoteVars>>

\* EnhancedRouteCache::clear_all, for the route cache: LruCache::clear
ClearAll ==
    /\ cache # EmptyMap
    /\ cache' = EmptyMap
    /\ access_order' = <<>>
    /\ stored' = EmptyMap
    /\ recency' = <<>>
    /\ last' = [op |-> "clear"]
    /\ UNCHANGED <<now, graphVars, gthreadVars, cthreadVars, searchVars, routerVars, quoteVars>>

\* time passes
Tick ==
    /\ now < MaxNow
    /\ now' = now + 1
    /\ UNCHANGED <<cache, access_order, stored, recency, last, graphVars, gthreadVars, cthreadVars, searchVars, routerVars, quoteVars>>

NextCache ==
    \/ \E amount \in Amounts, max_hops \in HopLimits : InsertRoute(1, 2, amount, max_hops)
    \/ \E amount \in Amounts, max_hops \in HopLimits : GetRoute(1, 2, amount, max_hops)
    \/ ClearExpired
    \/ ClearAll
    \/ Tick

SpecCache == Init /\ [][NextCache]_vars

\* A fresh EnhancedRouteCache that takes one insert_route and then lookups,
\* as in test_cache_hit_with_similar_amounts, over more amounts and keys.
BucketAmounts == {0, 7, 12, 99, 100, 123, 129, 130, 999, 1000, 1234, 1299}
BucketHops == {1, 2}

NextBucket ==
    \/ \E amount \in BucketAmounts, max_hops \in BucketHops :
           cache = EmptyMap /\ InsertRoute(1, 2, amount, max_hops)
    \/ \E amount \in BucketAmounts, max_hops \in BucketHops, token_out \in {2, 3} :
           cache # EmptyMap /\ GetRoute(1, token_out, amount, max_hops)
    \/ ClearAll

SpecBucket == Init /\ [][NextBucket]_vars

----------------------------------------------------------------------------
(* LruCache::get and LruCache::insert of several threads.  A thread moves  *)
(* from one lock operation to the next: DashMap::get_mut holds the shard   *)
(* of the key until the entry guard is dropped, DashMap::len reads every   *)
(* shard, DashMap::insert and remove take the key's shard for the call,    *)
(* and access_order.lock() holds the mutex until the guard is dropped.     *)

CallGetRoute(t, amount) ==
    /\ cpc[t] = "idle"
    /\ ccalls < MaxCacheCalls
    /\ ccalls' = ccalls + 1
    /\ carg' = [carg EXCEPT ![t] = [key |-> RouteKey(1, 2, amount, 2), value |-> Miss]]
    /\ cpc' = [cpc EXCEPT ![t] = "get_entry"]
    /\ UNCHANGED <<cpopped, shard_lock, order_lock, cacheVars, graphVars, gthreadVars, searchVars, routerVars, quoteVars>>

CallInsertRoute(t, amount) ==
    /\ cpc[t] = "idle"
    /\ ccalls < MaxCacheCalls
    /\ ccalls' = ccalls + 1
    /\ carg' = [carg EXCEPT ![t] = [key |-> RouteKey(1, 2, amount, 2),
                                    value |-> Route(amount)]]
    /\ cpc' = [cpc EXCEPT ![t] = "insert_len"]
    /\ UNCHANGED <<cpopped, shard_lock, order_lock, cacheVars, graphVars, gthreadVars, searchVars, routerVars, quoteVars>>

\* get, lines 33-36 and 48: cache.get_mut(key), the TTL test, drop(entry)
GetEntry(t) ==
    LET key == carg[t].key
    IN  /\ cpc[t] = "get_entry"
        /\ shard_lock[key] = NoThread
        /\ IF key \notin DOMAIN cache
           THEN /\ cpc' = [cpc EXCEPT ![t] = "idle"]
                /\ UNCHANGED <<cache, shard_lock, searchVars, routerVars, quoteVars>>
           ELSE IF Fresh(cache[key], now)
           THEN /\ cache' = [cache EXCEPT ![key].access_count = @ + 1]
                /\ shard_lock' = [shard_lock EXCEPT ![key] = t]
                /\ cpc' = [cpc EXCEPT ![t] = "get_order"]
           ELSE /\ cpc' = [cpc EXCEPT ![t] = "get_remove"]
                /\ UNCHANGED <<cache, shard_lock, searchVars, routerVars, quoteVars>>
        /\ UNCHANGED <<access_order, now, stored, recency, last, carg, cpopped,
                       order_lock, ccalls, graphVars, gthreadVars, searchVars, routerVars, quoteVars>>

\* get, lines 39-45: access_order.lock(), move the key to the back, return
\* (the deque guard and the entry guard are dropped)
GetOrder(t) ==
    LET key == carg[t].key
    IN  /\ cpc[t] = "get_order"
        /\ order_lock = NoThread
        /\ access_order' = Append(RemoveFirst(access_order, key), key)
        /\ shard_lock' = [shard_lock EXCEPT ![key] = NoThread]
        /\ cpc' = [cpc EXCEPT ![t] = "idle"]
        /\ UNCHANGED <<cache, now, stored, recency, last, carg, cpopped,
                       order_lock, ccalls, graphVars, gthreadVars, searchVars, routerVars, quoteVars>>

\* get, line 49: cache.remove(key) of the expired entry
GetRemove(t) ==
    LET key == carg[t].key
    IN  /\ cpc[t] = "get_remove"
        /\ shard_lock[key] = NoThread
        /\ cache' = MapRemove(cache, key)
        /\ cpc' = [cpc EXCEPT ![t] = "idle"]
        /\ UNCHANGED <<access_order, now, stored, recency, last, carg, cpopped,
                       shard_lock, order_lock, ccalls, graphVars, gthreadVars, searchVars, routerVars, quoteVars>>

\* insert, line 58: cache.len() >= max_size
InsertLen(t) ==
    /\ cpc[t] = "insert_len"
    /\ \A k \in ConcKeys : shard_lock[k] = NoThread
    /\ cpc' = [cpc EXCEPT ![t] = IF Cardinality(DOMAIN cache) >= MaxSize
                                 THEN "evict_lock" ELSE "insert_put"]
    /\ UNCHANGED <<cacheVars, carg, cpopped, shard_lock, order_lock, ccalls,
                   graphVars, gthreadVars, searchVars, routerVars, quoteVars>>

\* evict_lru, lines 77-78: access_order.lock(), pop_front
EvictLock(t) ==
    /\ cpc[t] = "evict_lock"
    /\ order_lock = NoThread
    /\ IF access_order = <<>>
       THEN /\ cpc' = [cpc EXCEPT ![t] = "insert_put"]
            /\ UNCHANGED <<access_order, cpopped, order_lock, searchVars, routerVars, quoteVars>>
       ELSE /\ cpopped' = [cpopped EXCEPT ![t] = Head(access_order)]
            /\ access_order' = Tail(access_order)
            /\ order_lock' = t
            /\ cpc' = [cpc EXCEPT ![t] = "evict_remove"]
    /\ UNCHANGED <<cache, now, stored, recency, last, carg, shard_lock, ccalls,
                   graphVars, gthreadVars, searchVars, routerVars, quoteVars>>

\* evict_lru, lines 79-81: cache.remove(&key) under the deque mutex
EvictRemove(t) ==
    /\ cpc[t] = "evict_remove"
    /\ shard_lock[cpopped[t]] = NoThread
    /\ cache' = MapRemove(cache, cpopped[t])
    /\ order_lock' = NoThread
    /\ cpc' = [cpc EXCEPT ![t] = "insert_put"]
    /\ UNCHANGED <<access_order, now, stored, recency, last, carg, cpopped,
                   shard_lock, ccalls, graphVars, gthreadVars, searchVars, routerVars, quoteVars>>

\* insert, lines 62-68: cache.insert(key, entry)
InsertPut(t) ==
    LET key == carg[t].key
        entry == [value |-> carg[t].value, inserted_at |-> now, access_count |-> 0]
    IN  /\ cpc[t] = "insert_put"
        /\ shard_lock[key] = NoThread
        /\ cache' = MapInsert(cache, key, entry)
        /\ cpc' = [cpc EXCEPT ![t] = "insert_order"]
        /\ UNCHANGED <<access_order, now, stored, recency, last, carg, cpopped,
                       shard_lock, order_lock, ccalls, graphVars, gthreadVars, searchVars, routerVars, quoteVars>>

\* insert, lines 71-72: access_order.lock(), push_back
InsertOrder(t) ==
    /\ cpc[t] = "insert_order"
    /\ order_lock = NoThread
    /\ access_order' = Append(access_order, carg[t].key)
    /\ cpc' = [cpc EXCEPT ![t] = "idle"]
    /\ UNCHANGED <<cache, now, stored, recency, last, carg, cpopped,
                   shard_lock, order_lock, ccalls, graphVars, gthreadVars, searchVars, routerVars, quoteVars>>

\* LruCache::clear starts
CallClear(t) ==
    /\ cpc[t] = "idle"
    /\ ccalls < MaxCacheCalls
    /\ ccalls' = ccalls + 1
    /\ cpc' = [cpc EXCEPT ![t] = "clear_map"]
    /\ UNCHANGED <<carg, cpopped, shard_lock, order_lock, cacheVars, graphVars, gthreadVars,
                   searchVars, routerVars, quoteVars>>

\* clear, line 102: cache.clear(), which takes every shard
ClearMap(t) ==
    /\ cpc[t] = "clear_map"
    /\ \A k \in ConcKeys : shard_lock[k] = NoThread
    /\ cache' = EmptyMap
    /\ cpc' = [cpc EXCEPT ![t] = "clear_order"]
    /\ UNCHANGED <<access_order, now, stored, recency, last, carg, cpopped,
                   shard_lock, order_lock, ccalls, graphVars, gthreadVars, searchVars,
                   routerVars, quoteVars>>

\* clear, line 103: access_order.lock().clear()
ClearOrder(t) ==
    /\ cpc[t] = "clear_order"
    /\ order_lock = NoThread
    /\ access_order' = <<>>
    /\ cpc' = [cpc EXCEPT ![t] = "idle"]
    /\ UNCHANGED <<cache, now, stored, recency, last, carg, cpopped,
                   shard_lock, order_lock, ccalls, graphVars, gthreadVars, searchVars,
                   routerVars, quoteVars>>

NextCacheConc ==
    \/ \E t \in Threads, amount \in ConcAmounts : CallGetRoute(t, amount)
    \/ \E t \in Threads, amount \in ConcAmounts : CallInsertRoute(t, amount)
    \/ \E t \in Threads : GetEntry(t)
    \/ \E t \in Threads : GetOrder(t)
    \/ \E t \in Threads : GetRemove(t)
    \/ \E t \in Threads : InsertLen(t)
    \/ \E t \in Threads : EvictLock(t)
    \/ \E t \in Threads : EvictRemove(t)
    \/ \E t \in Threads : InsertPut(t)
    \/ \E t \in Threads : InsertOrder(t)
    \/ Tick

SpecCacheConc == Init /\ [][NextCacheConc]_vars

\* get, insert and clear of several threads
NextCacheClear ==
    \/ \E t \in Threads, amount \in ConcAmounts : CallGetRoute(t, amount)
    \/ \E t \in Threads, amount \in ConcAmounts : CallInsertRoute(t, amount)
    \/ \E t \in Threads : CallClear(t)
    \/ \E t \in Threads : GetEntry(t)
    \/ \E t \in Threads : GetOrder(t)
    \/ \E t \in Threads : GetRemove(t)
    \/ \E t \in Threads : InsertLen(t)
    \/ \E t \in Threads : EvictLock(t)
    \/ \E t \in Threads : EvictRemove(t)
    \/ \E t \in Threads : InsertPut(t)
    \/ \E t \in Threads : InsertOrder(t)
    \/ \E t \in Threads : ClearMap(t)
    \/ \E t \in Threads : ClearOrder(t)
    \/ Tick

SpecCacheClear == Init /\ [][NextCacheClear]_vars

----------------------------------------------------------------------------
(* Properties of the LruCache under concurrent calls *)

\* the lock the thread's next step needs is held
CacheBlocked(t) ==
    CASE cpc[t] \in {"get_entry", "get_remove", "insert_put"} ->
             shard_lock[carg[t].key] # NoThread
      [] cpc[t] \in {"get_order", "evict_lock", "insert_order"} ->
             order_lock # NoThread
      [] cpc[t] = "insert_len" -> \E k \in ConcKeys : shard_lock[k] # NoThread
      [] cpc[t] = "evict_remove" -> shard_lock[cpopped[t]] # NoThread
      [] OTHER -> FALSE

CacheActive == {t \in Threads : cpc[t] # "idle"}

\* C8: get and insert never deadlock: while calls are in progress, one of
\* them can take its next step, so every call returns.
C8_DeadlockFree ==
    CacheActive # {} => \E t \in CacheActive : ~CacheBlocked(t)

----------------------------------------------------------------------------
(* Properties of the amount bucketing *)

\* the number of decimal digits of n
RECURSIVE NumDigits(_)
NumDigits(n) == IF n < 10 THEN 1 ELSE 1 + NumDigits(n \div 10)

\* the number its first two decimal digits denote (n itself below 100)
RECURSIVE LeadingTwo(_)
LeadingTwo(n) == IF n < 100 THEN n ELSE LeadingTwo(n \div 10)

SameLeadingDigits(a, b) ==
    NumDigits(a) = NumDigits(b) /\ LeadingTwo(a) = LeadingTwo(b)

----------------------------------------------------------------------------
(* Properties of the LruCache under sequential calls *)

C6_EvictsLeastRecentlyUsed ==
    (last.op = "insert" /\ last.full) => last.evicted = last.lru

\* C7: the map never holds more than max_size entries.
C7_Bounded == Cardinality(DOMAIN cache) <= MaxSize

----------------------------------------------------------------------------
(* CLMM swap math (utils/math.rs), on the scaled fixed point *)

\* get_amount0_delta: L * Q96 * (upper - lower) / (upper * lower), rounded up
get_amount0_delta(sqrt_price_lower, sqrt_price_upper, liquidity) ==
    IF sqrt_price_lower >= sqrt_price_upper \/ sqrt_price_lower = 0 THEN 0
    ELSE LET numerator == liquidity * Q96 * (sqrt_price_upper - sqrt_price_lower)
             denominator == sqrt_price_upper * sqrt_price_lower
         IN  IF denominator = 0 THEN 0
             ELSE (numerator + denominator - 1) \div denominator

\* get_amount1_delta: L * (upper - lower) / Q96, rounded up
get_amount1_delta(sqrt_price_lower, sqrt_price_upper, liquidity) ==
    IF sqrt_price_lower >= sqrt_price_upper THEN 0
    ELSE (liquidity * (sqrt_price_upper - sqrt_price_lower) + Q96 - 1) \div Q96

get_next_sqrt_price_from_amount0(sqrt_price, liquidity, amount) ==
    IF amount = 0 THEN sqrt_price
    ELSE LET numerator == liquidity * sqrt_price
             denominator == liquidity + (amount * sqrt_price) \div Q96
         IN  IF denominator = 0 THEN sqrt_price ELSE numerator \div denominator

get_next_sqrt_price_from_amount1(sqrt_price, liquidity, amount) ==
    IF liquidity = 0 THEN sqrt_price
    ELSE sqrt_price + (amount * Q96) \div liquidity

\* compute_swap_step
compute_swap_step(sqrt_price_current, sqrt_price_target, liquidity, amount_remaining, fee_pips) ==
    IF amount_remaining = 0 \/ liquidity = 0
    THEN [sqrt_price_next |-> sqrt_price_current, amount_in |-> 0,
          amount_out |-> 0, fee_amount |-> 0]
    ELSE
    LET zero_for_one == sqrt_price_current >= sqrt_price_target
        fee_denom == 1000000
        amount_remaining_less_fee ==
            (amount_remaining * (fee_denom - fee_pips)) \div fee_denom
        amount_in_max ==
            IF zero_for_one
            THEN get_amount0_delta(sqrt_price_target, sqrt_price_current, liquidity)
            ELSE get_amount1_delta(sqrt_price_current, sqrt_price_target, liquidity)
        reaches == amount_remaining_less_fee >= amount_in_max
        sqrt_price_next ==
            IF reaches THEN sqrt_price_target
            ELSE IF zero_for_one
            THEN get_next_sqrt_price_from_amount0(sqrt_price_current, liquidity,
                                                  amount_remaining_less_fee)
            ELSE get_next_sqrt_price_from_amount1(sqrt_price_current, liquidity,
                                                  amount_remaining_less_fee)
        amount_in ==
            IF reaches THEN amount_in_max
            ELSE IF zero_for_one
            THEN get_amount0_delta(sqrt_price_next, sqrt_price_current, liquidity)
            ELSE get_amount1_delta(sqrt_price_current, sqrt_price_next, liquidity)
        amount_out ==
            IF zero_for_one
            THEN get_amount1_delta(sqrt_price_next, sqrt_price_current, liquidity)
            ELSE get_amount0_delta(sqrt_price_current, sqrt_price_next, liquidity)
        fee_amount ==
            IF reaches
            THEN IF fee_pips = 0 THEN 0
                 ELSE (amount_in * fee_pips) \div (fee_denom - fee_pips) + 1
            ELSE amount_remaining - amount_in
    IN  [sqrt_price_next |-> sqrt_price_next, amount_in |-> amount_in,
         amount_out |-> amount_out, fee_amount |-> fee_amount]

\* tick_to_sqrt_price_x96: 1.0001^(tick/2) * 2^96 in floating point, cut to
\* an integer; the powers for the ticks of the pools, in millionths
tick_to_sqrt_price_x96(tick) ==
    LET sqrt_ratio == CASE tick = 0 - 2000 -> 904841
                        [] tick = 0 - 1000 -> 951231
                        [] tick = 0 -> 1000000
                        [] tick = 1000 -> 1051268
                        [] tick = 2000 -> 1105165
    IN  (Q96 * sqrt_ratio) \div 1000000

----------------------------------------------------------------------------
(* Routes (routing/route.rs) and the searches (routing/multi_hop.rs,      *)
(* routing/single_hop.rs).  price_impact, an f64, is not represented.      *)

MAX_HOPS == 4

Min(a, b) == IF a < b THEN a ELSE b

RouteHopNew(pool, token_in, token_out, amount_in, amount_out) ==
    [pool |-> pool, token_in |-> token_in, token_out |-> token_out,
     amount_in |-> amount_in, amount_out |-> amount_out]

RouteNew(hops, total_amount_in, total_amount_out, gas_estimate) ==
    [hops |-> hops, total_amount_in |-> total_amount_in,
     total_amount_out |-> total_amount_out, gas_estimate |-> gas_estimate]

NoRoute == [hops |-> <<>>]

\* a search that takes the hop limit as it is given
max_hops_min_Unclamped(max_hops) == max_hops

\* find_top_routes, let max_hops = max_hops.min(MAX_HOPS)
max_hops_min(max_hops) == Min(max_hops, MAX_HOPS)

\* multi_hop.rs simulate_swap: always towards tick - tick_spacing
simulate_swap(pool, amount_in) ==
    IF amount_in = 0 \/ pool.liquidity = 0 THEN 0
    ELSE compute_swap_step(pool.sqrt_price_x96,
                           tick_to_sqrt_price_x96(pool.tick - pool.tick_spacing),
                           pool.liquidity, amount_in, pool.fee).amount_out

\* multi_hop.rs estimate_gas
estimate_gas(pool) ==
    100000 + (IF pool.hook_address # ZeroAddress THEN 50000 ELSE 0)

\* build_route, the loop over state.path: the hops, or ok = FALSE for
\* Err("Token not in pool")
RECURSIVE BuildHops(_, _, _)
BuildHops(path, current_token, current_amount) ==
    IF path = <<>> THEN [ok |-> TRUE, hops |-> <<>>]
    ELSE LET pool == Head(path)
             token_out == other_token(pool, current_token)
             \* the hop of amount_out, before the hops of the rest of the path
             Hop(amount_out, rest) ==
                 IF ~rest.ok THEN rest
                 ELSE [ok |-> TRUE,
                       hops |-> <<RouteHopNew(pool, current_token, token_out,
                                              current_amount, amount_out)>> \o rest.hops]
             Swapped(amount_out) ==
                 Hop(amount_out, BuildHops(Tail(path), token_out, amount_out))
         IN  IF token_out = NoToken THEN [ok |-> FALSE, hops |-> <<>>]
             ELSE Swapped(simulate_swap(pool, current_amount))

\* build_route: ok = FALSE for Err
build_route(state, initial_amount) ==
    IF state.path = <<>> THEN [ok |-> FALSE, route |-> NoRoute]
    ELSE LET first_pool == state.path[1]
             current_token == IF first_pool.token0 \in state.visited_tokens
                              THEN first_pool.token0 ELSE first_pool.token1
             Built(r) ==
                 IF r.ok
                 THEN [ok |-> TRUE,
                       route |-> RouteNew(r.hops, initial_amount, state.amount_out,
                                          state.gas_used)]
                 ELSE [ok |-> FALSE, route |-> NoRoute]
         IN  Built(BuildHops(state.path, current_token, initial_amount))

\* an expansion that does not look at visited_tokens
RECURSIVE ExploreNeighbors_NoVisitedCheck(_, _)
ExploreNeighbors_NoVisitedCheck(pools, state) ==
    IF pools = <<>> THEN <<>>
    ELSE LET pool == Head(pools)
             next_token == other_token(pool, state.token)
             amount_out == simulate_swap(pool, state.amount_out)
             rest == ExploreNeighbors_NoVisitedCheck(Tail(pools), state)
         IN  IF next_token = NoToken \/ amount_out < 100 THEN rest
             ELSE <<[token |-> next_token, amount_out |-> amount_out,
                     path |-> Append(state.path, pool),
                     visited_tokens |-> state.visited_tokens \cup {next_token},
                     gas_used |-> state.gas_used + estimate_gas(pool)]>> \o rest

\* find_top_routes, lines 102-131: the states pushed for the pools of
\* state.token, in the order get_pools_for_token returns them
RECURSIVE ExploreNeighbors(_, _)
ExploreNeighbors(pools, state) ==
    IF pools = <<>> THEN <<>>
    ELSE LET pool == Head(pools)
             next_token == other_token(pool, state.token)
             rest == ExploreNeighbors(Tail(pools), state)
             Pushed(amount_out) ==
                 IF next_token = NoToken \/ next_token \in state.visited_tokens
                    \/ amount_out < 100
                 THEN <<>>
                 ELSE <<[token |-> next_token, amount_out |-> amount_out,
                         path |-> Append(state.path, pool),
                         visited_tokens |-> state.visited_tokens \cup {next_token},
                         gas_used |-> state.gas_used + estimate_gas(pool)]>>
         IN  Pushed(simulate_swap(pool, state.amount_out)) \o rest

\* Vec::sort_by(|a, b| b.total_amount_out.cmp(&a.total_amount_out)), a
\* stable sort: route goes behind the routes with at least its output
RECURSIVE InsertByOutput(_, _)
InsertByOutput(sorted, route) ==
    IF sorted = <<>> THEN <<route>>
    ELSE IF Head(sorted).total_amount_out >= route.total_amount_out
    THEN <<Head(sorted)>> \o InsertByOutput(Tail(sorted), route)
    ELSE <<route>> \o sorted

RECURSIVE SortByOutput(_)
SortByOutput(routes) ==
    IF routes = <<>> THEN <<>>
    ELSE InsertByOutput(SortByOutput(SubSeq(routes, 1, Len(routes) - 1)),
                        routes[Len(routes)])

\* single_hop.rs estimate_swap_gas
estimate_swap_gas(pool) ==
    100000 + (IF pool.hook_address # ZeroAddress THEN 50000 ELSE 0)
           + (IF pool.fee >= 10000 THEN 5000 ELSE 0)

\* PoolEdge::zero_for_one, for a token of the pool
zero_for_one(pool, token_in) == token_in = pool.token0

\* a swap simulation without the check for dust
calculate_amount_out_NoDustCheck(pool, amount_in, zero_for_one_) ==
    IF pool.liquidity = 0 THEN [ok |-> FALSE, amount_out |-> 0]
    ELSE LET sqrt_price_target ==
                 IF zero_for_one_
                 THEN tick_to_sqrt_price_x96(pool.tick - pool.tick_spacing)
                 ELSE tick_to_sqrt_price_x96(pool.tick + pool.tick_spacing)
             Checked(step) == [ok |-> TRUE, amount_out |-> step.amount_out]
         IN  Checked(compute_swap_step(pool.sqrt_price_x96, sqrt_price_target,
                                       pool.liquidity, amount_in, pool.fee))

\* single_hop.rs calculate_amount_out: ok = FALSE for Err
calculate_amount_out(pool, amount_in, zero_for_one_) ==
    IF pool.liquidity = 0 THEN [ok |-> FALSE, amount_out |-> 0]
    ELSE LET sqrt_price_target ==
                 IF zero_for_one_
                 THEN tick_to_sqrt_price_x96(pool.tick - pool.tick_spacing)
                 ELSE tick_to_sqrt_price_x96(pool.tick + pool.tick_spacing)
             Checked(step) ==
                 IF step.amount_out < 100 THEN [ok |-> FALSE, amount_out |-> step.amount_out]
                 ELSE [ok |-> TRUE, amount_out |-> step.amount_out]
         IN  Checked(compute_swap_step(pool.sqrt_price_x96, sqrt_price_target,
                                       pool.liquidity, amount_in, pool.fee))

\* single_hop.rs simulate_swap_through_pool: ok = FALSE for Err
simulate_swap_through_pool(pool, token_in, amount_in) ==
    IF token_in \notin {pool.token0, pool.token1}
    THEN [ok |-> FALSE, amount_out |-> 0, gas_estimate |-> 0]
    ELSE LET Simulated(r) == [ok |-> r.ok, amount_out |-> r.amount_out,
                              gas_estimate |-> estimate_swap_gas(pool)]
         IN  Simulated(calculate_amount_out(pool, amount_in, zero_for_one(pool, token_in)))

\* find_all_single_hop_routes, the loop: a route for every direct pool whose
\* simulation succeeds, in the order of get_pools_for_token
RECURSIVE SingleHopRoutes(_, _, _, _)
SingleHopRoutes(pools, token_in, token_out, amount_in) ==
    IF pools = <<>> THEN <<>>
    ELSE LET pool == Head(pools)
             rest == SingleHopRoutes(Tail(pools), token_in, token_out, amount_in)
             Found(sim) ==
                 IF other_token(pool, token_in) = token_out /\ sim.ok
                 THEN <<RouteNew(<<RouteHopNew(pool, token_in, token_out, amount_in,
                                               sim.amount_out)>>,
                                 amount_in, sim.amount_out, sim.gas_estimate)>>
                 ELSE <<>>
         IN  Found(simulate_swap_through_pool(pool, token_in, amount_in)) \o rest

\* find_best_single_hop_route, the loop: the first route with the largest
\* output, above the initial best_output of zero
RECURSIVE BestOf(_, _)
BestOf(routes, best_route) ==
    IF routes = <<>> THEN best_route
    ELSE IF Head(routes).total_amount_out >
            (IF best_route = NoRoute THEN 0 ELSE best_route.total_amount_out)
    THEN BestOf(Tail(routes), Head(routes))
    ELSE BestOf(Tail(routes), best_route)

----------------------------------------------------------------------------
(* f64 arithmetic, for the linear scaling of routing/split.rs.  A float is *)
(* m * 2^e with a mantissa m of MantissaBits bits; every operation rounds  *)
(* its exact result to the nearest float, a tie to the even mantissa.      *)

\* Stands for the 53 mantissa bits of an f64, scaled as the amounts are: an
\* integer of more than MantissaBits bits is not in general a float.
MantissaBits == 8

RECURSIVE Pow2(_)
Pow2(n) == IF n = 0 THEN 1 ELSE 2 * Pow2(n - 1)

\* n / d rounded to an integer, a tie to the even one
RoundHalfEven(n, d) ==
    LET q == n \div d
        r == n % d
    IN  IF 2 * r < d THEN q
        ELSE IF 2 * r > d THEN q + 1
        ELSE q + (q % 2)

\* the least integers of MantissaBits + 1 bits and of MantissaBits bits
MantissaEnd == Pow2(MantissaBits)
MantissaStart == Pow2(MantissaBits - 1)

\* the float nearest to (n / d) * 2^e
RECURSIVE RoundToF64(_, _, _)
RoundToF64(n, d, e) ==
    IF n = 0 THEN [m |-> 0, e |-> 0]
    ELSE IF n >= d * MantissaEnd THEN RoundToF64(n, 2 * d, e + 1)
    ELSE IF n < d * MantissaStart THEN RoundToF64(2 * n, d, e - 1)
    ELSE LET m == RoundHalfEven(n, d)
         IN  IF m = MantissaEnd
             THEN [m |-> MantissaStart, e |-> e + 1]
             ELSE [m |-> m, e |-> e]

\* u128 as f64
u128_as_f64(n) == RoundToF64(n, 1, 0)

\* f64 / f64, for a divisor that is not zero
f64_div(a, b) == RoundToF64(a.m, b.m, a.e - b.e)

\* f64 * f64
f64_mul(a, b) == RoundToF64(a.m * b.m, 1, a.e + b.e)

\* f64 as u128: the fraction is cut off
f64_as_u128(a) ==
    IF a.e >= 0 THEN a.m * Pow2(a.e) ELSE a.m \div Pow2(0 - a.e)

----------------------------------------------------------------------------
(* Split routes (routing/route.rs, routing/split.rs).  The price impacts,  *)
(* f64 values no claim reads, are not represented.                         *)

MAX_SPLITS == 3

\* SplitRoute::new; routes holds the pairs (route, percentage)
SplitRouteNew(routes, total_amount_in, total_amount_out, total_gas_estimate) ==
    [routes |-> routes, total_amount_in |-> total_amount_in,
     total_amount_out |-> total_amount_out, total_gas_estimate |-> total_gas_estimate]

\* SplitRoute::single
SplitRouteSingle(route) ==
    SplitRouteNew(<<[route |-> route, percentage |-> 100]>>, route.total_amount_in,
                  route.total_amount_out, route.gas_estimate)

\* simulate_route_output: total_amount_out * (amount / total_amount_in) in f64
simulate_route_output(route, amount) ==
    IF amount = 0 THEN 0
    ELSE IF route.total_amount_in = 0 THEN 0
    ELSE LET ratio == f64_div(u128_as_f64(amount), u128_as_f64(route.total_amount_in))
             estimated_output == f64_as_u128(f64_mul(u128_as_f64(route.total_amount_out), ratio))
         IN  estimated_output

\* scale_route
scale_route(route, new_amount) ==
    RouteNew(route.hops, new_amount, simulate_route_output(route, new_amount),
             route.gas_estimate)

RECURSIVE SumGas(_)
SumGas(split_routes) ==
    IF split_routes = <<>> THEN 0
    ELSE Head(split_routes).route.gas_estimate + SumGas(Tail(split_routes))

\* the list a split optimiser builds from the best split it found: the
\* routes of a share above zero, scaled to their amounts
BuildSplitRoutes(routes, splits, amounts) ==
    IF routes = <<>> THEN <<>>
    ELSE LET n == Len(routes)
             kept == {i \in 1..n : splits[i] > 0}
             Before(i) == Cardinality({j \in kept : j < i})
             At(k) == CHOOSE i \in kept : Before(i) = k - 1
         IN  [k \in 1..Cardinality(kept) |->
                 [route |-> scale_route(routes[At(k)], amounts[At(k)]),
                  percentage |-> splits[At(k)]]]

\* (0..=100).step_by(step)
StepBy(step) == {k * step : k \in 0..(100 \div step)}

\* total_amount * split / 100, and zero for a share of zero
ShareOf(total_amount, split) ==
    IF split = 0 THEN 0 ELSE (total_amount * split) \div 100

\* the output a route is taken to give for its share
OutputOf(route, split, amount) ==
    IF split > 0 THEN simulate_route_output(route, amount) ELSE 0

\* optimize_two_route_split.  The loop takes a split when its total_output
\* is above best_output, which starts at zero: it ends with the first split,
\* in the order of the loop, of the largest total_output, and with its
\* initial values if no split has an output above zero.
optimize_two_route_split(route_a, route_b, total_amount) ==
    LET amount_a(split_a) == ShareOf(total_amount, split_a)
        amount_b(split_a) == total_amount - amount_a(split_a)
        \* every iteration of the loop: split_a and its total_output
        iterations == {<<split_a,
                         OutputOf(route_a, split_a, amount_a(split_a))
                         + OutputOf(route_b, 100 - split_a, amount_b(split_a))>> :
                       split_a \in StepBy(5)}
        BestOutput(its) == CHOOSE o \in {it[2] : it \in its} : \A it \in its : it[2] <= o
        \* the first iteration that reaches best_output is the one kept
        First(best_splits) == CHOOSE split_a \in best_splits :
                                  \A other \in best_splits : split_a <= other
        Split(best_output, split_routes) ==
            SplitRouteNew(split_routes, total_amount, best_output, SumGas(split_routes))
        Kept(best_output, first) ==
            Split(best_output,
                  BuildSplitRoutes(<<route_a, route_b>>,
                                   IF best_output = 0 THEN <<100, 0>>
                                   ELSE <<first, 100 - first>>,
                                   IF best_output = 0 THEN <<0, 0>>
                                   ELSE <<amount_a(first), amount_b(first)>>))
        Best(its, best_output) ==
            Kept(best_output, First({it[1] : it \in {x \in its : x[2] = best_output}}))
        Loop(its) == Best(its, BestOutput(its))
    IN  Loop(iterations)

\* the pairs (split_a, split_b) of the two loops of optimize_three_route_split
ThreeWaySplits == {ab \in StepBy(10) \X StepBy(10) : ab[2] <= 100 - ab[1]}

\* the order in which the two loops reach the pairs
SplitBefore(x, y) == x[1] < y[1] \/ (x[1] = y[1] /\ x[2] <= y[2])

\* optimize_three_route_split: as the two-route loop, from the initial
\* best_split (0, 0, 0)
optimize_three_route_split(route_a, route_b, route_c, total_amount) ==
    LET amount_a(ab) == ShareOf(total_amount, ab[1])
        amount_b(ab) == ShareOf(total_amount, ab[2])
        amount_c(ab) == total_amount - amount_a(ab) - amount_b(ab)
        \* every iteration of the loops: the pair and its total_output
        iterations == {<<ab,
                         OutputOf(route_a, ab[1], amount_a(ab))
                         + OutputOf(route_b, ab[2], amount_b(ab))
                         + OutputOf(route_c, 100 - ab[1] - ab[2], amount_c(ab))>> :
                       ab \in ThreeWaySplits}
        BestOutput(its) == CHOOSE o \in {it[2] : it \in its} : \A it \in its : it[2] <= o
        \* the first iteration that reaches best_output is the one kept
        First(best_splits) == CHOOSE ab \in best_splits :
                                  \A other \in best_splits : SplitBefore(ab, other)
        Split(best_output, split_routes) ==
            SplitRouteNew(split_routes, total_amount, best_output, SumGas(split_routes))
        Kept(best_output, first) ==
            Split(best_output,
                  BuildSplitRoutes(<<route_a, route_b, route_c>>,
                                   IF best_output = 0 THEN <<0, 0, 0>>
                                   ELSE <<first[1], first[2], 100 - first[1] - first[2]>>,
                                   IF best_output = 0 THEN <<0, 0, 0>>
                                   ELSE <<amount_a(first), amount_b(first),
                                          amount_c(first)>>))
        Best(its, best_output) ==
            Kept(best_output, First({it[1] : it \in {x \in its : x[2] = best_output}}))
        Loop(its) == Best(its, BestOutput(its))
    IN  Loop(iterations)

\* optimize_split_route: ok = FALSE for Err(InternalError)
optimize_split_route(routes, total_amount) ==
    IF routes = <<>> THEN [ok |-> FALSE]
    ELSE IF Len(routes) = 1 THEN [ok |-> TRUE, split |-> SplitRouteSingle(routes[1])]
    ELSE LET taken == SubSeq(routes, 1, Min(MAX_SPLITS, Len(routes)))
         IN  IF Len(taken) = 1
             THEN [ok |-> TRUE, split |-> SplitRouteSingle(taken[1])]
             ELSE IF Len(taken) = 2
             THEN [ok |-> TRUE,
                   split |-> optimize_two_route_split(taken[1], taken[2], total_amount)]
             ELSE [ok |-> TRUE,
                   split |-> optimize_three_route_split(taken[1], taken[2], taken[3],
                                                        total_amount)]

----------------------------------------------------------------------------
(* The searches over the pool graph.  find_top_routes advances by one      *)
(* iteration of its loop; the single-hop searches run in one step.         *)

\* the pools installed before a search, and what the searches are asked
SearchPools ==
    { PoolEdgeNew(1, 1, 2, 3000, 1000, 20000, Q96, 0),
      PoolEdgeNew(2, 3, 2, 3000, 2000, 10000, Q96, 0),
      PoolEdgeNew(3, 1, 3, 10000, 2000, 5000, Q96, 0),
      PoolEdgeNew(4, 1, 2, 500, 1000, 2000, Q96, 0),
      PoolEdgeNew(5, 3, 4, 3000, 1000, 20000, Q96, 0) }
SearchAmounts == {300, 1000}
SearchHops == {1, 3}
SearchTopN == {1, 2}

InstallPool(pool) ==
    /\ sphase = "idle"
    /\ UpsertPool(pool)

\* find_top_routes up to the loop
FindTopRoutes(kind, token_in, token_out, amount_in, max_hops, top_n) ==
    /\ sphase = "idle"
    /\ squery' = [kind |-> kind, token_in |-> token_in, token_out |-> token_out,
                  amount_in |-> amount_in, max_hops |-> max_hops,
                  top_n |-> top_n]
    /\ IF ~HasPath(graph, token_index, token_in, token_out)
       THEN /\ sphase' = "done"
            /\ result' = [routes |-> <<>>]
            /\ heap' = <<>>
       ELSE /\ sphase' = "loop"
            /\ heap' = <<[token |-> token_in, amount_out |-> amount_in, path |-> <<>>,
                         visited_tokens |-> {token_in}, gas_used |-> 0]>>
            /\ UNCHANGED result
    /\ UNCHANGED <<best_per_token, completed_routes, graphVars, gthreadVars,
                   cacheVars, cthreadVars, routerVars, quoteVars>>

\* find_best_multi_hop_route: find_top_routes with top_n = 1
FindBestMultiHopRoute(token_in, token_out, amount_in, max_hops) ==
    FindTopRoutes("best_multi_hop", token_in, token_out, amount_in, max_hops, 1)

\* BinaryHeap::pop: a state with the largest amount_out; which one of
\* several is not fixed by the ordering
Largest == {i \in DOMAIN heap : \A j \in DOMAIN heap : heap[j].amount_out <= heap[i].amount_out}

RemoveAt(seq, i) == SubSeq(seq, 1, i - 1) \o SubSeq(seq, i + 1, Len(seq))

\* a loop that goes on after the heap has run empty
LoopEnds_OnlyWhenEnough(enough, heap_next) == enough

\* find_top_routes leaves its loop at the break, or when heap.pop() gives None
LoopEnds(enough, heap_next) == enough \/ heap_next = <<>>

\* one iteration of the loop of find_top_routes; the last one sorts and
\* returns
PopState(i) ==
    LET state == heap[i]
        rest == RemoveAt(heap, i)
        at_destination == state.token = squery.token_out
        built == build_route(state, squery.amount_in)
        completed == IF at_destination /\ built.ok
                     THEN Append(completed_routes, built.route)
                     ELSE completed_routes
        enough == at_destination /\ built.ok /\ Len(completed) >= squery.top_n
        pruned == /\ state.token \in DOMAIN best_per_token
                  /\ state.amount_out < (best_per_token[state.token] * 95) \div 100
        at_max_hops == Len(state.path) >= max_hops_min(squery.max_hops)
        pushed == ExploreNeighbors(GetPoolsForToken(graph, token_index, state.token),
                                   state)
        heap_next == IF at_destination \/ pruned \/ at_max_hops THEN rest
                     ELSE rest \o pushed
    IN  /\ sphase = "loop"
        /\ i \in Largest
        /\ IF LoopEnds(enough, heap_next)
           THEN /\ sphase' = "done"
                /\ result' = [routes |-> SubSeq(SortByOutput(completed), 1,
                                 IF squery.kind = "best_multi_hop"
                                 THEN Min(1, Len(completed)) ELSE Len(completed))]
                /\ heap' = <<>>
                /\ best_per_token' = EmptyMap
                /\ completed_routes' = <<>>
           ELSE /\ sphase' = "loop"
                /\ heap' = heap_next
                /\ best_per_token' = IF at_destination \/ pruned THEN best_per_token
                                     ELSE MapInsert(best_per_token, state.token,
                                                    state.amount_out)
                /\ completed_routes' = completed
                /\ UNCHANGED result
        /\ UNCHANGED <<squery, graphVars, gthreadVars, cacheVars, cthreadVars, routerVars, quoteVars>>

FindBestSingleHopRoute(token_in, token_out, amount_in) ==
    LET routes == SingleHopRoutes(GetPoolsForToken(graph, token_index, token_in),
                                  token_in, token_out, amount_in)
        best_route == BestOf(routes, NoRoute)
    IN  /\ sphase = "idle"
        /\ squery' = [kind |-> "best_single_hop", token_in |-> token_in,
                      token_out |-> token_out, amount_in |-> amount_in,
                      max_hops |-> 1, top_n |-> 1]
        /\ result' = [routes |-> IF best_route = NoRoute THEN <<>> ELSE <<best_route>>]
        /\ sphase' = "done"
        /\ UNCHANGED <<heap, best_per_token, completed_routes, graphVars, gthreadVars,
                       cacheVars, cthreadVars, routerVars, quoteVars>>

FindAllSingleHopRoutes(token_in, token_out, amount_in) ==
    LET routes == SingleHopRoutes(GetPoolsForToken(graph, token_index, token_in),
                                  token_in, token_out, amount_in)
    IN  /\ sphase = "idle"
        /\ squery' = [kind |-> "all_single_hop", token_in |-> token_in,
                      token_out |-> token_out, amount_in |-> amount_in,
                      max_hops |-> 1, top_n |-> Len(routes)]
        /\ result' = [routes |-> SortByOutput(routes)]
        /\ sphase' = "done"
        /\ UNCHANGED <<heap, best_per_token, completed_routes, graphVars, gthreadVars,
                       cacheVars, cthreadVars, routerVars, quoteVars>>

\* the caller takes the result
Return ==
    /\ sphase = "done"
    /\ sphase' = "idle"
    /\ squery' = [kind |-> "none"]
    /\ result' = [routes |-> <<>>]
    /\ UNCHANGED <<heap, best_per_token, completed_routes, graphVars, gthreadVars,
                   cacheVars, cthreadVars, routerVars, quoteVars>>

NextSearch ==
    \/ \E pool \in SearchPools : InstallPool(pool)
    \/ \E token_in \in Tokens, token_out \in Tokens, amount_in \in SearchAmounts,
          max_hops \in SearchHops, top_n \in SearchTopN :
           FindTopRoutes("top_routes", token_in, token_out, amount_in, max_hops, top_n)
    \/ \E token_in \in Tokens, token_out \in Tokens, amount_in \in SearchAmounts,
          max_hops \in SearchHops :
           FindBestMultiHopRoute(token_in, token_out, amount_in, max_hops)
    \/ \E i \in DOMAIN heap : PopState(i)
    \/ \E token_in \in Tokens, token_out \in Tokens, amount_in \in SearchAmounts :
           FindBestSingleHopRoute(token_in, token_out, amount_in)
    \/ \E token_in \in Tokens, token_out \in Tokens, amount_in \in SearchAmounts :
           FindAllSingleHopRoutes(token_in, token_out, amount_in)
    \/ Return

SpecSearch == Init /\ [][NextSearch]_vars

----------------------------------------------------------------------------
(* find_top_routes over a graph that grows pool by pool into a chain of    *)
(* six tokens with a parallel pool at its head and a triangle at its tail, *)
(* asked for hop limits on both sides of MAX_HOPS.  The last pool of the   *)
(* chain trades above par, so a route through it can complete after a      *)
(* route of smaller output.                                                *)

ChainPools ==
    << PoolEdgeNew(11, 1, 2, 3000, 1000, 20000, Q96, 0),
       PoolEdgeNew(12, 1, 2, 500, 1000, 15000, Q96, 0),
       PoolEdgeNew(13, 2, 3, 3000, 1000, 20000, Q96, 0),
       PoolEdgeNew(14, 3, 4, 3000, 1000, 20000, Q96, 0),
       PoolEdgeNew(15, 4, 5, 3000, 1000, 15000, Q96, 0),
       PoolEdgeNew(16, 5, 6, 3000, 1000, 10000, tick_to_sqrt_price_x96(2000), 2000),
       PoolEdgeNew(17, 4, 6, 3000, 1000, 20000, Q96, 0) >>
ChainTokens == 1..6
ChainAmounts == {300, 1000}
ChainHops == {0, 2, 4, 5}
ChainTopN == {0, 1, 3}

\* upsert_pool for the next pool of the chain
InstallChainPool ==
    /\ sphase = "idle"
    /\ Len(calls) < Len(ChainPools)
    /\ calls = SubSeq(ChainPools, 1, Len(calls))
    /\ upsert_pool(ChainPools[Len(calls) + 1])

NextChain ==
    \/ InstallChainPool
    \/ \E token_in \in ChainTokens, token_out \in ChainTokens,
          amount_in \in ChainAmounts, max_hops \in ChainHops, top_n \in ChainTopN :
           FindTopRoutes("top_routes", token_in, token_out, amount_in, max_hops, top_n)
    \/ \E i \in DOMAIN heap : PopState(i)
    \/ Return

SpecChain == Init /\ [][NextChain]_vars

\* heap.pop() has a state to give: an iteration of the loop can run
PopStateEnabled == sphase = "loop" /\ heap # <<>>

\* A call of find_top_routes runs on, its loop is not suspended for ever:
\* weak fairness of the loop iteration, WF_vars(\E i \in DOMAIN heap :
\* PopState(i)), with its ENABLED written out as PopStateEnabled.
SpecChainFair ==
    SpecChain /\ ([]<>~PopStateEnabled \/ []<><<\E i \in DOMAIN heap : PopState(i)>>_vars)

----------------------------------------------------------------------------
(* The single-hop searches over pools that join the same two tokens: two   *)
(* pools that differ in pool_id only, one of a higher fee tier, and one    *)
(* too shallow to pay out the dust floor.                                  *)

DirectPools ==
    { PoolEdgeNew(1, 1, 2, 3000, 1000, 20000, Q96, 0),
      PoolEdgeNew(6, 1, 2, 3000, 1000, 20000, Q96, 0),
      PoolEdgeNew(7, 1, 2, 10000, 1000, 20000, Q96, 0),
      PoolEdgeNew(4, 1, 2, 500, 1000, 2000, Q96, 0),
      PoolEdgeNew(2, 3, 2, 3000, 2000, 10000, Q96, 0) }
DirectTokens == 1..3

NextDirect ==
    \/ \E pool \in DirectPools : InstallPool(pool)
    \/ \E token_in \in DirectTokens, token_out \in DirectTokens,
          amount_in \in SearchAmounts :
           FindBestSingleHopRoute(token_in, token_out, amount_in)
    \/ \E token_in \in DirectTokens, token_out \in DirectTokens,
          amount_in \in SearchAmounts :
           FindAllSingleHopRoutes(token_in, token_out, amount_in)
    \/ Return

SpecDirect == Init /\ [][NextDirect]_vars

----------------------------------------------------------------------------
(* optimize_split_route on lists of candidate routes: routes between       *)
(* tokens 1 and 2, quoted for 1000 or for 300 units, some with an output   *)
(* that is a float and some with an output that is not.                    *)

\* a route of one hop through pool 1 of the searches, with the amounts given
CandidateRoute(total_amount_in, total_amount_out) ==
    LET pool == PoolEdgeNew(1, 1, 2, 3000, 1000, 20000, Q96, 0)
    IN  RouteNew(<<RouteHopNew(pool, 1, 2, total_amount_in, total_amount_out)>>,
                 total_amount_in, total_amount_out, estimate_swap_gas(pool))

SplitCandidates ==
    { CandidateRoute(1000, 960), CandidateRoute(1000, 958), CandidateRoute(1000, 489),
      CandidateRoute(300, 313), CandidateRoute(300, 288) }
SplitAmounts == {1, 300, 1000}
MaxCandidates == 4
MaxSplitCalls == 1

\* the lists of up to MaxCandidates different candidates
CandidateLists ==
    {routes \in UNION {[1..n -> SplitCandidates] : n \in 1..MaxCandidates} :
        \A i, j \in DOMAIN routes : i # j => routes[i] # routes[j]}

OptimizeSplitRoute(routes, total_amount) ==
    /\ split_call.calls < MaxSplitCalls
    /\ split_call' = [op |-> "optimize_split_route", calls |-> split_call.calls + 1,
                      routes |-> routes,
                      total_amount |-> total_amount,
                      result |-> optimize_split_route(routes, total_amount)]
    /\ UNCHANGED <<graphVars, gthreadVars, cacheVars, cthreadVars, searchVars,
                   router, split_cache, split_order, rcall,
                   quoteVars>>

NextSplit ==
    \E routes \in CandidateLists, total_amount \in SplitAmounts :
        OptimizeSplitRoute(routes, total_amount)

SpecSplit == Init /\ [][NextSplit]_vars

----------------------------------------------------------------------------
(* The Router: find_route and find_split_route over the pool graph, with   *)
(* the route cache (cache, access_order) and the split cache (split_cache, *)
(* split_order) of its EnhancedRouteCache.  A call runs to its end in one  *)
(* step.  An Option is a sequence of at most one element.                  *)

None == <<>>
Some(x) == <<x>>
unwrap_or(opt, default) == IF opt = None THEN default ELSE opt[1]

\* Stands for the 10^17 of find_split_route, scaled as the amounts are; a
\* power of ten, as 10^17 is
min_split_amount == 1000

\* BinaryHeap::pop: a state of the largest amount_out, the first or the last
\* of them in the heap
PickLargest(h, pick) ==
    LET largest == {i \in DOMAIN h : \A j \in DOMAIN h : h[j].amount_out <= h[i].amount_out}
    IN  IF pick = "first" THEN CHOOSE i \in largest : \A j \in largest : i <= j
        ELSE CHOOSE i \in largest : \A j \in largest : j <= i

\* the loop of find_top_routes, from the state s of the heap, of
\* best_per_token and of completed_routes, to the routes collected
RECURSIVE TopRoutesLoop(_, _, _)

\* one iteration of the loop: the state popped, the heap without it, and
\* what build_route makes of the state
TopRoutesIteration(q, s, pick, state, rest, built) ==
    LET at_destination == state.token = q.token_out
        completed == IF at_destination /\ built.ok
                     THEN Append(s.completed_routes, built.route)
                     ELSE s.completed_routes
        enough == at_destination /\ built.ok /\ Len(completed) >= q.top_n
        pruned == /\ state.token \in DOMAIN s.best_per_token
                  /\ state.amount_out < (s.best_per_token[state.token] * 95) \div 100
        at_max_hops == Len(state.path) >= max_hops_min(q.max_hops)
        pushed == ExploreNeighbors(GetPoolsForToken(graph, token_index, state.token),
                                   state)
        heap_next == IF at_destination \/ pruned \/ at_max_hops THEN rest
                     ELSE rest \o pushed
    IN  IF LoopEnds(enough, heap_next) THEN completed
        ELSE TopRoutesLoop(q, [heap |-> heap_next,
                               best_per_token |->
                                   IF at_destination \/ pruned THEN s.best_per_token
                                   ELSE MapInsert(s.best_per_token, state.token,
                                                  state.amount_out),
                               completed_routes |-> completed], pick)

\* the state at index i of the heap is popped
TopRoutesPop(q, s, pick, i) ==
    TopRoutesIteration(q, s, pick, s.heap[i], RemoveAt(s.heap, i),
                       build_route(s.heap[i], q.amount_in))

TopRoutesLoop(q, s, pick) == TopRoutesPop(q, s, pick, PickLargest(s.heap, pick))

\* find_top_routes on the graph as it is
find_top_routes(token_in, token_out, amount_in, max_hops, top_n, pick) ==
    IF ~HasPath(graph, token_index, token_in, token_out) THEN <<>>
    ELSE SortByOutput(TopRoutesLoop(
             [token_out |-> token_out, amount_in |-> amount_in,
              max_hops |-> max_hops, top_n |-> top_n],
             [heap |-> <<[token |-> token_in, amount_out |-> amount_in, path |-> <<>>,
                          visited_tokens |-> {token_in}, gas_used |-> 0]>>,
              best_per_token |-> EmptyMap,
              completed_routes |-> <<>>], pick))

\* a Result<Route>
ErrNoRouteFound == [ok |-> FALSE, error |-> "NoRouteFound"]
Ok(value) == [ok |-> TRUE, value |-> value]

find_best_multi_hop_route(token_in, token_out, amount_in, max_hops, pick) ==
    LET Best(routes) == IF routes = <<>> THEN ErrNoRouteFound ELSE Ok(Head(routes))
    IN  Best(find_top_routes(token_in, token_out, amount_in, max_hops, 1, pick))

find_best_single_hop_route(token_in, token_out, amount_in) ==
    LET Best(best_route) == IF best_route = NoRoute THEN ErrNoRouteFound ELSE Ok(best_route)
    IN  Best(BestOf(SingleHopRoutes(GetPoolsForToken(graph, token_index, token_in),
                                    token_in, token_out, amount_in), NoRoute))

find_all_single_hop_routes(token_in, token_out, amount_in) ==
    SortByOutput(SingleHopRoutes(GetPoolsForToken(graph, token_index, token_in),
                                 token_in, token_out, amount_in))

\* find_routes_parallel, the tasks of the hop counts hops..max_hops, flattened
RECURSIVE AllRoutes(_, _, _, _, _, _)
AllRoutes(token_in, token_out, amount_in, hops, max_hops, pick) ==
    IF hops > max_hops THEN <<>>
    ELSE (IF hops = 1 THEN find_all_single_hop_routes(token_in, token_out, amount_in)
          ELSE find_top_routes(token_in, token_out, amount_in, hops, 5, pick))
         \o AllRoutes(token_in, token_out, amount_in, hops + 1, max_hops, pick)

find_routes_parallel(token_in, token_out, amount_in, max_hops, pick) ==
    SortByOutput(AllRoutes(token_in, token_out, amount_in, 1, max_hops_min(max_hops), pick))

\* find_best_route_parallel: an Option<Route>
find_best_route_parallel(token_in, token_out, amount_in, max_hops, pick) ==
    LET Best(routes) == IF routes = <<>> THEN None ELSE Some(Head(routes))
    IN  Best(find_routes_parallel(token_in, token_out, amount_in, max_hops, pick))

\* the Option<Route> of the parallel search as a Result<Route>
OkOr(best) == IF best = None THEN ErrNoRouteFound ELSE Ok(best[1])

\* the sequential strategy: the better of the single-hop and the multi-hop
\* result, the single-hop one when they are equal
BetterOf(single_hop, multi_hop) ==
    IF single_hop.ok
    THEN IF multi_hop.ok
         THEN IF multi_hop.value.total_amount_out > single_hop.value.total_amount_out
              THEN multi_hop ELSE single_hop
         ELSE single_hop
    ELSE multi_hop

\* Router::find_route, the strategy selection
SelectStrategy(token_in, token_out, amount_in, max_hops, pick) ==
    IF max_hops = 1 THEN find_best_single_hop_route(token_in, token_out, amount_in)
    ELSE IF router.enable_parallel /\ max_hops > 2
    THEN OkOr(find_best_route_parallel(token_in, token_out, amount_in, max_hops, pick))
    ELSE BetterOf(find_best_single_hop_route(token_in, token_out, amount_in),
                  find_best_multi_hop_route(token_in, token_out, amount_in, max_hops, pick))

\* Router::find_route after the lookup got of the route cache, for the route
\* the selected strategy computes on a miss
FindRouteAfter(key, got, route) ==
    LET Inserted(r, ins) == [result |-> r, cached |-> FALSE,
                             cache |-> ins.cache, order |-> ins.order]
    IN
    IF got.result # Miss
    THEN [result |-> Ok(got.result), cached |-> TRUE,
          cache |-> got.cache, order |-> got.order]
    ELSE IF ~route.ok
    THEN [result |-> route, cached |-> FALSE, cache |-> got.cache, order |-> got.order]
    ELSE IF router.enable_cache
    THEN Inserted(route, LruInsertUpTo(got.cache, got.order, key, route.value, now,
                                       router.max_routes))
    ELSE [result |-> route, cached |-> FALSE, cache |-> cache, order |-> access_order]

\* the lookup of a cache of the router, a miss when caching is off
RouterCacheGet(c, order, key) ==
    IF router.enable_cache THEN LruGetWithin(c, order, key, now, router.cache_ttl_seconds)
    ELSE [cache |-> c, order |-> order, result |-> Miss]

\* Router::find_route: what it returns, and the route cache after it
find_route(token_in, token_out, amount_in, max_hops_opt, pick) ==
    FindRouteAfter(RouteKey(token_in, token_out, amount_in, unwrap_or(max_hops_opt, MAX_HOPS)),
                   RouterCacheGet(cache, access_order,
                                  RouteKey(token_in, token_out, amount_in,
                                           unwrap_or(max_hops_opt, MAX_HOPS))),
                   SelectStrategy(token_in, token_out, amount_in,
                                  unwrap_or(max_hops_opt, MAX_HOPS), pick))

\* the single route find_split_route falls back to: find_route, as a split
SingleSplit(best, got) ==
    [result |-> IF best.result.ok THEN Ok(SplitRouteSingle(best.result.value))
                ELSE best.result,
     cached |-> FALSE, cache |-> best.cache, order |-> best.order,
     split_cache |-> got.cache, split_order |-> got.order]

\* the split route the optimiser returns, stored in the split cache
OptimizedSplit(key, got, split_route) ==
    LET Inserted(ins) == [result |-> Ok(split_route), cached |-> FALSE,
                          cache |-> cache, order |-> access_order,
                          split_cache |-> ins.cache, split_order |-> ins.order]
    IN  IF router.enable_cache
        THEN Inserted(LruInsertUpTo(got.cache, got.order, key, split_route, now,
                                    router.max_splits))
        ELSE [result |-> Ok(split_route), cached |-> FALSE,
              cache |-> cache, order |-> access_order,
              split_cache |-> split_cache, split_order |-> split_order]

\* Router::find_split_route after the lookup got of the split cache, for the
\* route best of find_route and the routes top_routes of find_top_routes
FindSplitRouteAfter(key, amount_in, got, best, top_routes) ==
    IF got.result # Miss
    THEN [result |-> Ok(got.result), cached |-> TRUE,
          cache |-> cache, order |-> access_order,
          split_cache |-> got.cache, split_order |-> got.order]
    ELSE IF amount_in < min_split_amount THEN SingleSplit(best, got)
    ELSE IF top_routes = <<>> THEN SingleSplit(best, got)
    ELSE OptimizedSplit(key, got, optimize_split_route(top_routes, amount_in).split)

\* Router::find_split_route: what it returns, and both caches after it
find_split_route(token_in, token_out, amount_in, max_hops_opt, max_splits_opt, pick) ==
    FindSplitRouteAfter(
        RouteKey(token_in, token_out, amount_in, unwrap_or(max_hops_opt, MAX_HOPS)),
        amount_in,
        RouterCacheGet(split_cache, split_order,
                       RouteKey(token_in, token_out, amount_in,
                                unwrap_or(max_hops_opt, MAX_HOPS))),
        find_route(token_in, token_out, amount_in,
                   Some(unwrap_or(max_hops_opt, MAX_HOPS)), pick),
        find_top_routes(token_in, token_out, amount_in, unwrap_or(max_hops_opt, MAX_HOPS),
                        unwrap_or(max_splits_opt, MAX_SPLITS) * 2, pick))

RouterPools ==
    << PoolEdgeNew(21, 2, 4, 3000, 1000, 15000, Q96, 0),
       PoolEdgeNew(22, 2, 4, 500, 1000, 15000, Q96, 0),
       PoolEdgeNew(23, 1, 3, 3000, 1000, 5000, Q96, 0),
       PoolEdgeNew(24, 2, 3, 3000, 1000, 20000, Q96, 0),
       PoolEdgeNew(25, 3, 4, 3000, 1000, 20000, Q96, 0) >>
RouterPairs == {<<2, 4>>, <<1, 4>>}
RouterAmounts == {100, 105, 1000}
RouterHops == {Some(0), Some(1), Some(3)}
SplitHops == {None, Some(1)}
RouterSplits == {None, Some(1)}
HeapPicks == {"first", "last"}
MaxRouterCalls == 2

\* PoolGraph::upsert_pool of the next pool, before the router is built
InstallRouterPool ==
    /\ sphase = "idle"
    /\ ~router.constructed
    /\ Len(calls) < Len(RouterPools)
    /\ calls = SubSeq(RouterPools, 1, Len(calls))
    /\ upsert_pool(RouterPools[Len(calls) + 1])

\* EnhancedRouteCache::new: the sizes of the three caches and their TTL
EnhancedRouteCacheNew(max_routes, max_quotes, ttl_seconds) ==
    [max_routes |-> max_routes, max_splits |-> max_routes \div 2,
     max_quotes |-> max_quotes, cache_ttl_seconds |-> ttl_seconds]

\* Router::with_config, for the fields of a RouterConfig
RouterWith(enable_cache, enable_parallel, sizes) ==
    [constructed |-> TRUE, enable_cache |-> enable_cache,
     enable_parallel |-> enable_parallel,
     cache_ttl_seconds |-> sizes.cache_ttl_seconds,
     max_routes |-> sizes.max_routes, max_splits |-> sizes.max_splits,
     max_quotes |-> sizes.max_quotes]

\* Router::with_config of a router whose caches hold MaxSize entries each
\* for Ttl ticks
WithConfig(enable_cache, enable_parallel) ==
    /\ ~router.constructed
    /\ router' = RouterWith(enable_cache, enable_parallel,
                            [max_routes |-> MaxSize, max_splits |-> MaxSize,
                             max_quotes |-> MaxSize, cache_ttl_seconds |-> Ttl])
    /\ UNCHANGED <<graphVars, gthreadVars, cacheVars, cthreadVars, searchVars,
                   split_call, split_cache, split_order, rcall,
                   quoteVars>>

\* a call of find_route that returned r
FindRouteReturns(token_in, token_out, amount_in, max_hops, r) ==
    /\ router.constructed
    /\ rcall.calls < MaxRouterCalls
    /\ rcall' = [op |-> "find_route", calls |-> rcall.calls + 1,
                 token_in |-> token_in, token_out |-> token_out,
                 amount_in |-> amount_in, max_hops |-> max_hops,
                 result |-> r.result, cached |-> r.cached]
    /\ cache' = r.cache
    /\ access_order' = r.order
    /\ UNCHANGED <<now, stored, recency, last, graphVars, gthreadVars, cthreadVars,
                   searchVars, split_call, router, split_cache, split_order,
                   quoteVars>>

FindRoute(token_in, token_out, amount_in, max_hops, pick) ==
    FindRouteReturns(token_in, token_out, amount_in, max_hops,
                     find_route(token_in, token_out, amount_in, max_hops, pick))

\* a call of find_split_route that returned r
FindSplitRouteReturns(token_in, token_out, amount_in, max_hops, max_splits, r) ==
    /\ router.constructed
    /\ rcall.calls < MaxRouterCalls
    /\ rcall' = [op |-> "find_split_route", calls |-> rcall.calls + 1,
                 token_in |-> token_in, token_out |-> token_out,
                 amount_in |-> amount_in, max_hops |-> max_hops,
                 max_splits |-> max_splits,
                 result |-> r.result, cached |-> r.cached]
    /\ cache' = r.cache
    /\ access_order' = r.order
    /\ split_cache' = r.split_cache
    /\ split_order' = r.split_order
    /\ UNCHANGED <<now, stored, recency, last, graphVars, gthreadVars, cthreadVars,
                   searchVars, split_call, router, quoteVars>>

FindSplitRoute(token_in, token_out, amount_in, max_hops, max_splits, pick) ==
    FindSplitRouteReturns(token_in, token_out, amount_in, max_hops, max_splits,
                          find_split_route(token_in, token_out, amount_in, max_hops,
                                           max_splits, pick))

NextRouter ==
    \/ InstallRouterPool
    \/ \E enable_cache, enable_parallel \in BOOLEAN : WithConfig(enable_cache, enable_parallel)
    \/ \E pair \in RouterPairs, amount_in \in RouterAmounts, max_hops \in RouterHops,
          pick \in HeapPicks :
           FindRoute(pair[1], pair[2], amount_in, max_hops, pick)
    \/ \E pair \in RouterPairs, amount_in \in RouterAmounts, max_hops \in SplitHops,
          max_splits \in RouterSplits, pick \in HeapPicks :
           FindSplitRoute(pair[1], pair[2], amount_in, max_hops, max_splits, pick)

SpecRouter == Init /\ [][NextRouter]_vars

----------------------------------------------------------------------------
(* compute_swap_step on its own, for every step of the inputs below *)

\* sqrt prices of the ticks -1000, 0 and 1000
SwapPrices == {tick_to_sqrt_price_x96(0 - 1000), tick_to_sqrt_price_x96(0),
               tick_to_sqrt_price_x96(1000)}
SwapLiquidity == {5000, 19620, 20000}
SwapRemaining == {1, 100, 1000}
SwapFees == {500, 3000}
MaxSwapCalls == 1

ComputeSwapStep(sqrt_price_current, sqrt_price_target, liquidity, amount_remaining, fee_pips) ==
    /\ swap_call.calls < MaxSwapCalls
    /\ swap_call' = [op |-> "compute_swap_step", calls |-> swap_call.calls + 1,
                     sqrt_price_current |-> sqrt_price_current,
                     sqrt_price_target |-> sqrt_price_target,
                     liquidity |-> liquidity,
                     amount_remaining |-> amount_remaining,
                     fee_pips |-> fee_pips,
                     result |-> compute_swap_step(sqrt_price_current, sqrt_price_target,
                                                  liquidity, amount_remaining, fee_pips)]
    /\ UNCHANGED <<graphVars, gthreadVars, cacheVars, cthreadVars, searchVars, routerVars,
                   quote_cache, quote_order, api_cache, par, served>>

NextSwapStep ==
    \E sqrt_price_current, sqrt_price_target \in SwapPrices, liquidity \in SwapLiquidity,
       amount_remaining \in SwapRemaining, fee_pips \in SwapFees :
        ComputeSwapStep(sqrt_price_current, sqrt_price_target, liquidity,
                        amount_remaining, fee_pips)

SpecSwapStep == Init /\ [][NextSwapStep]_vars

----------------------------------------------------------------------------
(* find_routes_parallel, task by task (routing/parallel.rs).  The call     *)
(* makes one task for every hop count; the tasks of rayon's par_iter       *)
(* finish in any order, and collect gathers their results when all of them *)
(* have finished.  The graph does not change during a call.                *)

ParallelPairs == {<<2, 4>>, <<1, 4>>}
ParallelAmounts == {100, 1000}
ParallelHops == {0, 1, 3, 5}
ParallelOps == {"find_routes_parallel", "find_best_route_parallel"}
MaxParallelCalls == 1

\* hop_counts: (1..=max_hops).collect()
hop_counts(max_hops) == [i \in 1..max_hops |-> i]

\* the closure of map: the routes of the task of one hop count
TaskRoutes(p, hops) ==
    IF hops = 1 THEN find_all_single_hop_routes(p.token_in, p.token_out, p.amount_in)
    ELSE find_top_routes(p.token_in, p.token_out, p.amount_in, hops, 5, p.pick)

\* results gathered in the order in which the tasks finished
CollectOrder_AsFinished(p) == p.finished

\* collect() of an indexed parallel iterator: the results in the order of
\* hop_counts, whatever the order in which the tasks finished
CollectOrder(p) == hop_counts(p.max_hops)

\* into_iter().flatten().collect()
RECURSIVE Flatten(_, _)
Flatten(all_routes, order) ==
    IF order = <<>> THEN <<>>
    ELSE all_routes[Head(order)] \o Flatten(all_routes, Tail(order))

\* a pool is installed before the call
InstallParallelPool ==
    /\ par.phase = "idle"
    /\ InstallRouterPool

\* the call starts: max_hops.min(MAX_HOPS) and one task for every hop count
StartParallel(op, token_in, token_out, amount_in, max_hops, pick) ==
    /\ par.phase # "running"
    /\ par.calls < MaxParallelCalls
    /\ par' = [phase |-> "running", calls |-> par.calls + 1, op |-> op,
               token_in |-> token_in, token_out |-> token_out,
               amount_in |-> amount_in, requested_hops |-> max_hops,
               max_hops |-> max_hops_min(max_hops), pick |-> pick,
               pending |-> 1..max_hops_min(max_hops),
               all_routes |-> [hops \in 1..max_hops_min(max_hops) |-> <<>>],
               finished |-> <<>>, routes |-> <<>>, best |-> None]
    /\ UNCHANGED <<graphVars, gthreadVars, cacheVars, cthreadVars, searchVars, routerVars,
                   quote_cache, quote_order, api_cache, swap_call, served>>

\* the task of one hop count runs and finishes
FinishTask(hops) ==
    /\ par.phase = "running"
    /\ hops \in par.pending
    /\ par' = [par EXCEPT !.pending = @ \ {hops},
                          !.all_routes[hops] = TaskRoutes(par, hops),
                          !.finished = Append(@, hops)]
    /\ UNCHANGED <<graphVars, gthreadVars, cacheVars, cthreadVars, searchVars, routerVars,
                   quote_cache, quote_order, api_cache, swap_call, served>>

\* the call returns routes, or the head of routes
ParallelReturns(routes) ==
    /\ par' = [par EXCEPT !.phase = "done",
                          !.routes = routes,
                          !.best = IF routes = <<>> THEN None ELSE Some(Head(routes))]
    /\ UNCHANGED <<graphVars, gthreadVars, cacheVars, cthreadVars, searchVars, routerVars,
                   quote_cache, quote_order, api_cache, swap_call, served>>

\* all tasks have finished: flatten, par_sort_by (a stable sort), return
CollectParallel ==
    /\ par.phase = "running"
    /\ par.pending = {}
    /\ ParallelReturns(SortByOutput(Flatten(par.all_routes, CollectOrder(par))))

NextParallel ==
    \/ InstallParallelPool
    \/ \E op \in ParallelOps, pair \in ParallelPairs, amount_in \in ParallelAmounts,
          max_hops \in ParallelHops, pick \in HeapPicks :
           StartParallel(op, pair[1], pair[2], amount_in, max_hops, pick)
    \/ \E hops \in 1..MAX_HOPS : FinishTask(hops)
    \/ CollectParallel

SpecParallel == Init /\ [][NextParallel]_vars

----------------------------------------------------------------------------
(* Router::get_quote and the three caches of the router over time           *)
(* (routing/router.rs, routing/quote.rs).  Of a Quote the price impact, the *)
(* gas cost in USD and the route string, which no claim reads, are not      *)
(* represented.                                                             *)

\* (slippage * 100.0) as u32
SlippageBps(slippage) == f64_as_u128(f64_mul(slippage, u128_as_f64(100)))

\* utils::math::apply_slippage
apply_slippage(amount, slippage_bps) == (amount * (10000 - slippage_bps)) \div 10000

\* Quote::from_route
QuoteFromRoute(route, slippage) ==
    [amount_in |-> ToDecimalString(route.total_amount_in),
     amount_out |-> ToDecimalString(route.total_amount_out),
     amount_out_min |-> ToDecimalString(apply_slippage(route.total_amount_out,
                                                       SlippageBps(slippage))),
     gas_estimate |-> route.total_gas_estimate,
     route |-> route]

\* QuoteKey as get_quote and insert_quote build it
QuoteKey(token_in, token_out, amount, slippage, max_hops) ==
    [token_in |-> token_in, token_out |-> token_out,
     amount_bucket |-> bucket_amount(amount),
     slippage_bps |-> SlippageBps(slippage), max_hops |-> max_hops]

\* Router::get_quote after the lookup got of the quote cache, for what
\* find_route returns on a miss
GetQuoteAfter(key, slippage, got, route) ==
    LET Returned(quote, c, order) ==
            [result |-> Ok(quote), cached |-> FALSE, route_cached |-> route.cached,
             cache |-> route.cache, order |-> route.order,
             quote_cache |-> c, quote_order |-> order]
        Inserted(quote, ins) == Returned(quote, ins.cache, ins.order)
        Built(quote) ==
            IF router.enable_cache
            THEN Inserted(quote, LruInsertUpTo(got.cache, got.order, key, quote, now,
                                               router.max_quotes))
            ELSE Returned(quote, got.cache, got.order)
    IN  IF got.result # Miss
        THEN [result |-> Ok(got.result), cached |-> TRUE, route_cached |-> FALSE,
              cache |-> cache, order |-> access_order,
              quote_cache |-> got.cache, quote_order |-> got.order]
        ELSE IF ~route.result.ok
        THEN [result |-> route.result, cached |-> FALSE, route_cached |-> FALSE,
              cache |-> route.cache, order |-> route.order,
              quote_cache |-> got.cache, quote_order |-> got.order]
        ELSE Built(QuoteFromRoute(SplitRouteSingle(route.result.value), slippage))

\* Router::get_quote: what it returns, and the route and quote caches after it
get_quote(token_in, token_out, amount_in, slippage, max_hops_opt, pick) ==
    GetQuoteAfter(QuoteKey(token_in, token_out, amount_in, slippage,
                           unwrap_or(max_hops_opt, MAX_HOPS)),
                  slippage,
                  RouterCacheGet(quote_cache, quote_order,
                                 QuoteKey(token_in, token_out, amount_in, slippage,
                                          unwrap_or(max_hops_opt, MAX_HOPS))),
                  find_route(token_in, token_out, amount_in,
                             Some(unwrap_or(max_hops_opt, MAX_HOPS)), pick))

\* Stands for the 15 seconds of RouterConfig::default and RouteCache::default
DefaultTtl == 3
\* Stand for the 1000 routes and the 2000 quotes of RouterConfig::default
DefaultMaxRoutes == 2
DefaultMaxQuotes == 2

\* a RouterConfig
RouterConfig(enable_cache, enable_parallel, cache_ttl_seconds, max_routes_cached, max_quotes_cached) ==
    [enable_cache |-> enable_cache, enable_parallel |-> enable_parallel,
     cache_ttl_seconds |-> cache_ttl_seconds, max_routes_cached |-> max_routes_cached,
     max_quotes_cached |-> max_quotes_cached]

\* RouterConfig::default
RouterConfigDefault ==
    RouterConfig(TRUE, TRUE, DefaultTtl, DefaultMaxRoutes, DefaultMaxQuotes)

\* Router::with_config
with_config(config) ==
    RouterWith(config.enable_cache, config.enable_parallel,
               EnhancedRouteCacheNew(config.max_routes_cached, config.max_quotes_cached,
                                     config.cache_ttl_seconds))

\* two pools of one pair: the first gives 103 for 105 and less than the
\* least output for 100, the second gives 118 for 105 and 103 for 100
QuotePools ==
    << PoolEdgeNew(31, 1, 2, 3000, 1000, 5000, Q96, 0),
       PoolEdgeNew(32, 1, 2, 500, 1000, 15000, Q96, 0) >>
QuoteConfigs ==
    {RouterConfigDefault,
     RouterConfig(FALSE, FALSE, DefaultTtl, DefaultMaxRoutes, DefaultMaxQuotes)}
\* 100 and 105 share a bucket
QuoteAmounts == {100, 105}
QuoteSplitAmounts == {105, 1000}
\* 0.5 and 1.0 percent
HalfPercent == RoundToF64(1, 2, 0)
Slippages == {HalfPercent, u128_as_f64(1)}
NoSlippage == u128_as_f64(0)
MaxQuoteNow == 4
MaxQuoteCalls == 3

\* a call of the router: the operation and its arguments
Call(op, token_in, token_out, amount_in, max_hops, slippage, max_splits) ==
    [op |-> op, token_in |-> token_in, token_out |-> token_out, amount_in |-> amount_in,
     max_hops |-> max_hops, slippage |-> slippage, max_splits |-> max_splits]

RouteKeyOf(call) ==
    RouteKey(call.token_in, call.token_out, call.amount_in,
             unwrap_or(call.max_hops, MAX_HOPS))

\* the keys a call inserted in a cache that was c1 before it and is c2 after
InsertedKeys(c1, c2) ==
    {k \in DOMAIN c2 : /\ c2[k].access_count = 0
                       /\ k \in DOMAIN c1 => c1[k] # c2[k]}

\* history: the latest call of every operation and arguments, with what it
\* returned, when, on how many pools, and how many insertions of other route
\* keys followed it; and the latest such call that computed what it returned
Noted(earlier, call, r) ==
    MapInsert([c \in DOMAIN earlier |->
                  [earlier[c] EXCEPT !.others =
                      @ + Cardinality(InsertedKeys(cache, r.cache) \ {RouteKeyOf(c)})]],
              call,
              [result |-> r.result, cached |-> r.cached, at |-> now, others |-> 0,
               pools |-> Len(calls), seq |-> rcall.calls + 1,
               computed |-> IF r.result.ok /\ ~r.cached
                            THEN Some([result |-> r.result, at |-> now,
                                       pools |-> Len(calls)])
                            ELSE IF call \in DOMAIN earlier THEN earlier[call].computed
                            ELSE None])

\* history: how often every key was inserted in the route cache
Counted(inserts, inserted) ==
    [k \in DOMAIN inserts \cup inserted |->
        (IF k \in DOMAIN inserts THEN inserts[k] ELSE 0) + (IF k \in inserted THEN 1 ELSE 0)]

\* PoolGraph::upsert_pool of the next pool, at any time
UpsertQuotePool ==
    /\ Len(calls) < Len(QuotePools)
    /\ calls = SubSeq(QuotePools, 1, Len(calls))
    /\ upsert_pool(QuotePools[Len(calls) + 1])

\* Router::with_config on the graph as it is
QuoteWithConfig(config) ==
    /\ ~router.constructed
    /\ router' = with_config(config)
    /\ UNCHANGED <<graphVars, gthreadVars, cacheVars, cthreadVars, searchVars,
                   split_call, split_cache, split_order, rcall, quoteVars>>

\* time passes for the router, until its last call
QuoteTick ==
    /\ router.constructed
    /\ rcall.calls < MaxQuoteCalls
    /\ now < MaxQuoteNow
    /\ now' = now + 1
    /\ UNCHANGED <<cache, access_order, stored, recency, last, graphVars, gthreadVars,
                   cthreadVars, searchVars, routerVars, quoteVars>>

\* a call of the router that returned r; computed_at is when the route it
\* returned, or the route of the quote it returned, was computed from the graph
RouterReturnsWithin(call, r, computed_at, max_calls) ==
    /\ router.constructed
    /\ rcall.calls < max_calls
    /\ rcall' = [op |-> call.op, calls |-> rcall.calls + 1, call |-> call,
                 result |-> r.result, cached |-> r.cached, at |-> now,
                 pools |-> Len(calls), computed_at |-> computed_at,
                 earlier |-> IF call \in DOMAIN served.earlier
                             THEN Some(served.earlier[call]) ELSE None]
    /\ cache' = r.cache
    /\ access_order' = r.order
    /\ split_cache' = r.split_cache
    /\ split_order' = r.split_order
    /\ quote_cache' = r.quote_cache
    /\ quote_order' = r.quote_order
    /\ served' = [served EXCEPT
                     !.earlier = Noted(served.earlier, call, r),
                     !.inserts = Counted(@, InsertedKeys(cache, r.cache)),
                     !.derived = IF call.op = "get_quote" /\ r.result.ok
                                 THEN MapInsert(@, QuoteKey(call.token_in, call.token_out,
                                                            call.amount_in, call.slippage,
                                                            unwrap_or(call.max_hops,
                                                                      MAX_HOPS)),
                                                computed_at)
                                 ELSE @]
    /\ UNCHANGED <<now, stored, recency, last, graphVars, gthreadVars, cthreadVars,
                   searchVars, split_call, router, api_cache, swap_call, par>>

RouterReturns(call, r, computed_at) ==
    RouterReturnsWithin(call, r, computed_at, MaxQuoteCalls)

\* when the route of the key was computed: now, unless it came from the cache
RouteComputedAt(key, cached) ==
    IF cached THEN cache[key].inserted_at ELSE now

QuoteFindRouteReturns(call, r) ==
    RouterReturns(call,
                  [result |-> r.result, cached |-> r.cached,
                   cache |-> r.cache, order |-> r.order,
                   split_cache |-> split_cache, split_order |-> split_order,
                   quote_cache |-> quote_cache, quote_order |-> quote_order],
                  RouteComputedAt(RouteKeyOf(call), r.cached))

\* Router::find_route
QuoteFindRoute(token_in, token_out, amount_in, max_hops) ==
    QuoteFindRouteReturns(Call("find_route", token_in, token_out, amount_in, max_hops,
                               NoSlippage, None),
                          find_route(token_in, token_out, amount_in, max_hops, "first"))

QuoteGetQuoteReturns(call, key, r) ==
    RouterReturns(call,
                  [result |-> r.result, cached |-> r.cached,
                   cache |-> r.cache, order |-> r.order,
                   split_cache |-> split_cache, split_order |-> split_order,
                   quote_cache |-> r.quote_cache, quote_order |-> r.quote_order],
                  IF r.cached THEN served.derived[key]
                  ELSE RouteComputedAt(RouteKeyOf(call), r.route_cached))

\* Router::get_quote
QuoteGetQuote(token_in, token_out, amount_in, slippage, max_hops) ==
    QuoteGetQuoteReturns(Call("get_quote", token_in, token_out, amount_in, max_hops,
                              slippage, None),
                         QuoteKey(token_in, token_out, amount_in, slippage,
                                  unwrap_or(max_hops, MAX_HOPS)),
                         get_quote(token_in, token_out, amount_in, slippage, max_hops,
                                   "first"))

QuoteFindSplitRouteReturns(call, r) ==
    RouterReturns(call,
                  [result |-> r.result, cached |-> r.cached,
                   cache |-> r.cache, order |-> r.order,
                   split_cache |-> r.split_cache, split_order |-> r.split_order,
                   quote_cache |-> quote_cache, quote_order |-> quote_order],
                  now)

\* Router::find_split_route
QuoteFindSplitRoute(token_in, token_out, amount_in, max_hops, max_splits) ==
    QuoteFindSplitRouteReturns(Call("find_split_route", token_in, token_out, amount_in,
                                    max_hops, NoSlippage, max_splits),
                               find_split_route(token_in, token_out, amount_in, max_hops,
                                                max_splits, "first"))

NextQuote ==
    \/ UpsertQuotePool
    \/ \E config \in QuoteConfigs : QuoteWithConfig(config)
    \/ QuoteTick
    \/ \E amount_in \in QuoteAmounts : QuoteFindRoute(1, 2, amount_in, Some(1))
    \/ \E amount_in \in QuoteAmounts : QuoteGetQuote(1, 2, amount_in, HalfPercent, Some(1))
    \/ \E amount_in \in QuoteSplitAmounts : QuoteFindSplitRoute(1, 2, amount_in, None, None)

SpecQuote == Init /\ [][NextQuote]_vars

----------------------------------------------------------------------------
(* Router::find_route for three keys of a route cache of two entries *)

\* the keys differ in max_hops
EvictHops == {Some(1), Some(2), Some(3)}
MaxEvictCalls == 4

EvictFindRouteReturns(call, r) ==
    RouterReturnsWithin(call,
                        [result |-> r.result, cached |-> r.cached,
                         cache |-> r.cache, order |-> r.order,
                         split_cache |-> split_cache, split_order |-> split_order,
                         quote_cache |-> quote_cache, quote_order |-> quote_order],
                        RouteComputedAt(RouteKeyOf(call), r.cached),
                        MaxEvictCalls)

\* Router::find_route, one of MaxEvictCalls calls
EvictFindRoute(token_in, token_out, amount_in, max_hops) ==
    EvictFindRouteReturns(Call("find_route", token_in, token_out, amount_in, max_hops,
                               NoSlippage, None),
                          find_route(token_in, token_out, amount_in, max_hops, "first"))

NextEvict ==
    \/ UpsertQuotePool
    \/ QuoteWithConfig(RouterConfigDefault)
    \/ QuoteTick
    \/ \E max_hops \in EvictHops : EvictFindRoute(1, 2, 105, max_hops)

SpecEvict == Init /\ [][NextEvict]_vars

----------------------------------------------------------------------------
(* GET /v1/quote (api/handlers.rs) on the AppState: the router with its     *)
(* default configuration, and the RouteCache of the handler                 *)

\* str.parse::<U256>(): a string is a sequence of characters, the digits
\* 0..9 and other characters, which are numbered from 10
ParseU256(str) ==
    IF str = <<>> \/ \E i \in DOMAIN str : str[i] \notin 0..9
    THEN [ok |-> FALSE, error |-> "Invalid amount"]
    ELSE Ok(ParseDecimal(str))

\* bucket_amount of the handler
handler_bucket_amount(amount) ==
    LET amount_str == ToDecimalString(amount)
    IN  IF Len(amount_str) <= 2 THEN amount_str
        ELSE SubSeq(amount_str, 1, 2) \o Zeros(Len(amount_str) - 2)

\* format!("{}:{}:{}", token_in, token_out, bucket_amount(amount_in)): the
\* three parts, which the string determines
CacheKey(token_in, token_out, amount_in) ==
    <<token_in, token_out, handler_bucket_amount(amount_in)>>

\* RouteCache::get: the map after it and the quote returned
RouteCacheGet(c, key, at, ttl) ==
    IF key \in DOMAIN c
    THEN IF at - c[key].inserted_at < ttl
         THEN [cache |-> c, result |-> c[key].quote]
         ELSE [cache |-> MapRemove(c, key), result |-> Miss]
    ELSE [cache |-> c, result |-> Miss]

\* RouteCache::set
RouteCacheSet(c, key, quote, at) ==
    MapInsert(c, key, [quote |-> quote, inserted_at |-> at])

\* From<RouterError> for ApiError and IntoResponse for ApiError
ApiErrorStatus(error) ==
    IF error = "NoRouteFound" THEN 404
    ELSE IF error \in {"Invalid amount", "InvalidAmount"} THEN 400
    ELSE 500

\* the strings "105" and "1x"
ApiAmounts == {<<1, 0, 5>>, <<1, 10>>}
ApiHops == {None, Some(1)}

\* a response of the handler, and the caches after it; computed_for is the
\* slippage and max_hops of the request the quote was computed for
Responded(call, response, r, api, computed_for) ==
    /\ rcall.calls < MaxQuoteCalls
    /\ rcall' = [op |-> call.op, calls |-> rcall.calls + 1, call |-> call,
                 status |-> response.status, quote |-> response.quote,
                 cached |-> response.cached, at |-> now, pools |-> Len(calls),
                 computed_for |-> computed_for]
    /\ cache' = r.cache
    /\ access_order' = r.order
    /\ quote_cache' = r.quote_cache
    /\ quote_order' = r.quote_order
    /\ api_cache' = api
    /\ served' = [served EXCEPT
                     !.stored_for = IF response.status = 200 /\ ~response.cached
                                    THEN MapInsert(@, CacheKey(call.token_in, call.token_out,
                                                               ParseDecimal(call.amount_in)),
                                                   computed_for)
                                    ELSE @]
    /\ UNCHANGED <<now, stored, recency, last, graphVars, gthreadVars, cthreadVars,
                   searchVars, split_call, router, split_cache, split_order,
                   swap_call, par>>

\* the router untouched
RouterAsIs ==
    [cache |-> cache, order |-> access_order,
     quote_cache |-> quote_cache, quote_order |-> quote_order]

NoQuote == [none |-> TRUE]
ErrorResponse(error) == [status |-> ApiErrorStatus(error), quote |-> NoQuote, cached |-> FALSE]
QuoteResponse(quote, cached) == [status |-> 200, quote |-> quote, cached |-> cached]

\* get_quote of the handler after the router answered r on a miss
HandlerAfterRouter(call, key, got, r) ==
    IF ~r.result.ok
    THEN Responded(call, ErrorResponse(r.result.error), r, got.cache,
                   [slippage |-> call.slippage, max_hops |-> call.max_hops])
    ELSE Responded(call, QuoteResponse(r.result.value, FALSE), r,
                   RouteCacheSet(got.cache, key, r.result.value, now),
                   [slippage |-> call.slippage, max_hops |-> call.max_hops])

\* get_quote of the handler after the amount parsed and the lookup got of the
\* RouteCache
HandlerAfterLookup(call, amount_in, key, got) ==
    IF got.result # Miss
    THEN Responded(call, QuoteResponse(got.result, TRUE), RouterAsIs, got.cache,
                   served.stored_for[key])
    ELSE HandlerAfterRouter(call, key, got,
                            get_quote(call.token_in, call.token_out, amount_in,
                                      call.slippage, call.max_hops, "first"))

HandlerAfterParse(call, amount_in) ==
    IF ~amount_in.ok
    THEN Responded(call, ErrorResponse(amount_in.error), RouterAsIs, api_cache,
                   [slippage |-> call.slippage, max_hops |-> call.max_hops])
    ELSE HandlerAfterLookup(call, amount_in.value,
                            CacheKey(call.token_in, call.token_out, amount_in.value),
                            RouteCacheGet(api_cache,
                                          CacheKey(call.token_in, call.token_out,
                                                   amount_in.value),
                                          now, DefaultTtl))

\* GET /v1/quote: get_quote of the handler
GetQuoteHandler(token_in, token_out, amount_in, slippage, max_hops) ==
    /\ router.constructed
    /\ HandlerAfterParse(Call("GET /v1/quote", token_in, token_out, amount_in, max_hops,
                              slippage, None),
                         ParseU256(amount_in))

\* AppState::new: a new graph, Router::new on it and RouteCache::default
AppStateNew ==
    /\ calls = <<>>
    /\ api_cache = EmptyMap
    /\ QuoteWithConfig(RouterConfigDefault)

\* PoolGraph::upsert_pool of the next pool on the graph of the AppState
ApiUpsertPool ==
    /\ router.constructed
    /\ UpsertQuotePool

NextApi ==
    \/ AppStateNew
    \/ ApiUpsertPool
    \/ QuoteTick
    \/ \E amount_in \in ApiAmounts, slippage \in Slippages, max_hops \in ApiHops :
           GetQuoteHandler(1, 2, amount_in, slippage, max_hops)

SpecApi == Init /\ [][NextApi]_vars

----------------------------------------------------------------------------
(* Properties of the routes *)

\* the tokens a route goes through, in order
TokenSeq(route) ==
    <<route.hops[1].token_in>> \o [i \in 1..Len(route.hops) |-> route.hops[i].token_out]

Chained(route) ==
    \A i \in 1..(Len(route.hops) - 1) :
        route.hops[i].token_out = route.hops[i + 1].token_in

NoRepeatedToken(route) ==
    \A i, j \in DOMAIN TokenSeq(route) :
        i # j => TokenSeq(route)[i] # TokenSeq(route)[j]

\* the tokens are joined by a pool of the graph
DirectlyConnected(a, b) ==
    \E i \in DOMAIN graph.edges :
        /\ graph.nodes[graph.edges[i].source] = a
        /\ graph.nodes[graph.edges[i].target] = b

\* C10: every route a search returns, and every route find_top_routes has
\* completed, is a simple chain: each hop starts at the token the hop
\* before it ends at, and no token occurs twice in its token sequence.
C10_SimpleChain ==
    \A route \in Range(result.routes) \cup Range(completed_routes) :
        /\ route.hops # <<>>
        /\ Chained(route)
        /\ NoRepeatedToken(route)

\* find_top_routes returns a route of several hops between two tokens that
\* a pool joins directly, so the graph has a cycle through the route
C10_Witness ==
    /\ sphase = "done"
    /\ squery.kind = "top_routes"
    /\ DirectlyConnected(squery.token_in, squery.token_out)
    /\ \E route \in Range(result.routes) : Len(route.hops) >= 2

\* C11: every route a search returns for (token_in, token_out) starts at
\* token_in and ends at token_out: its first hop takes token_in and its last
\* hop gives token_out, whichever side of its pool token_in is on.
C11_RouteEndpoints ==
    sphase = "done" =>
        \A route \in Range(result.routes) :
            /\ route.hops # <<>>
            /\ route.hops[1].token_in = squery.token_in
            /\ route.hops[Len(route.hops)].token_out = squery.token_out

\* the outputs of the routes never go up along the list
SortedByOutput(routes) ==
    \A i \in 1..(Len(routes) - 1) :
        routes[i].total_amount_out >= routes[i + 1].total_amount_out

\* C12: the routes find_top_routes returns are sorted by descending
\* total_amount_out, and none has more hops than min(max_hops, MAX_HOPS),
\* for the max_hops it was called with.
C12_SortedAndHopBounded ==
    (sphase = "done" /\ squery.kind = "top_routes") =>
        /\ SortedByOutput(result.routes)
        /\ \A route \in Range(result.routes) :
               Len(route.hops) <= Min(squery.max_hops, MAX_HOPS)

\* find_top_routes, called with a hop limit above MAX_HOPS, returns
\* routes of different outputs, the better one of MAX_HOPS hops
C12_Witness ==
    /\ sphase = "done"
    /\ squery.kind = "top_routes"
    /\ squery.max_hops > MAX_HOPS
    /\ \E a, b \in Range(result.routes) :
           /\ a.total_amount_out > b.total_amount_out
           /\ Len(a.hops) = MAX_HOPS

\* C13: find_top_routes called with top_n returns at most top_n routes,
\* for every top_n from zero up.
C13_AtMostTopN ==
    (sphase = "done" /\ squery.kind = "top_routes") =>
        Len(result.routes) <= squery.top_n

\* C14: find_top_routes terminates: a call that has entered its loop
\* returns, on every graph, with cycles and parallel pools, for every
\* max_hops and top_n.
C14_Terminates == (sphase = "loop") ~> (sphase = "done")

\* find_top_routes has returned from a search that started on a token of
\* the triangle, with the parallel pools installed, and went through its
\* loop more than once
C14_Witness ==
    /\ sphase = "done"
    /\ squery.kind = "top_routes"
    /\ Len(calls) = Len(ChainPools)
    /\ squery.token_in \in {4, 5, 6}
    /\ squery.max_hops > MAX_HOPS
    /\ Len(result.routes) >= 2

\* the pools of the graph that join the query's tokens directly and pay out
\* the dust floor for its amount
DirectCandidates ==
    {pool \in Range(GetPoolsForToken(graph, token_index, squery.token_in)) :
        /\ other_token(pool, squery.token_in) = squery.token_out
        /\ simulate_swap_through_pool(pool, squery.token_in, squery.amount_in).ok}

CandidateOutput(pool) ==
    simulate_swap_through_pool(pool, squery.token_in, squery.amount_in).amount_out

\* the route goes through one candidate pool and no candidate pays out more
GreatestOutput(route) ==
    /\ Len(route.hops) = 1
    /\ route.hops[1].pool \in DirectCandidates
    /\ route.total_amount_out = CandidateOutput(route.hops[1].pool)
    /\ \A pool \in DirectCandidates : CandidateOutput(pool) <= route.total_amount_out

\* among the candidates of the route's output, the route's pool has the
\* lowest gas estimate and, among those, the smallest pool_id
TieBrokenByGasThenPoolId(route) ==
    \A pool \in DirectCandidates :
        CandidateOutput(pool) = route.total_amount_out =>
            \/ route.gas_estimate < estimate_swap_gas(pool)
            \/ /\ route.gas_estimate = estimate_swap_gas(pool)
               /\ route.hops[1].pool.pool_id <= pool.pool_id

\* find_best_single_hop_route returns, when there are candidates, one of the
\* greatest output
SingleHopGreatestOutput ==
    (sphase = "done" /\ squery.kind = "best_single_hop" /\ DirectCandidates # {}) =>
        /\ Len(result.routes) = 1
        /\ GreatestOutput(result.routes[1])

\* C20: find_best_single_hop_route returns, among the pools that join
\* token_in and token_out directly and pass the dust floor, the one of the
\* greatest amount_out, a tie broken by the lower gas estimate and then by
\* the smaller pool_id, in whatever order the pools were installed.
C20_BestSingleHop ==
    (sphase = "done" /\ squery.kind = "best_single_hop" /\ DirectCandidates # {}) =>
        /\ Len(result.routes) = 1
        /\ GreatestOutput(result.routes[1])
        /\ TieBrokenByGasThenPoolId(result.routes[1])

RECURSIVE SumPercentages(_)
SumPercentages(split_routes) ==
    IF split_routes = <<>> THEN 0
    ELSE Head(split_routes).percentage + SumPercentages(Tail(split_routes))

\* C15: for every non-empty list of routes and every total_amount, also one
\* so small that every scaled output is zero, optimize_split_route returns
\* a SplitRoute with at least one and at most MAX_SPLITS sub-routes whose
\* percentages add up to exactly 100.
C15_SplitWellFormed ==
    (split_call.op = "optimize_split_route" /\ split_call.routes # <<>>) =>
        /\ split_call.result.ok
        /\ split_call.result.split.routes # <<>>
        /\ Len(split_call.result.split.routes) <= MAX_SPLITS
        /\ SumPercentages(split_call.result.split.routes) = 100

\* the largest total_amount_out among the routes
BestSingleOutput(routes) ==
    CHOOSE o \in {routes[i].total_amount_out : i \in DOMAIN routes} :
        \A i \in DOMAIN routes : routes[i].total_amount_out <= o

\* C16: when every candidate route was computed for total_amount, the
\* SplitRoute optimize_split_route returns has a total_amount_out of at
\* least the total_amount_out of the best single route passed in.
C16_SplitNotWorse ==
    (/\ split_call.op = "optimize_split_route"
     /\ \A i \in DOMAIN split_call.routes :
            split_call.routes[i].total_amount_in = split_call.total_amount) =>
        /\ split_call.result.ok
        /\ split_call.result.split.total_amount_out >= BestSingleOutput(split_call.routes)

\* the sub-routes of the SplitRoute the latest call returned
ReturnedSplits == rcall.result.value.routes

\* C17: for every amount below min_split_amount, find_split_route returns
\* a SplitRoute of exactly one sub-route at 100%, whatever was served and
\* cached before.
C17_SmallAmountSingleRoute ==
    (/\ rcall.op = "find_split_route"
     /\ rcall.amount_in < min_split_amount
     /\ rcall.result.ok) =>
        /\ Len(ReturnedSplits) = 1
        /\ ReturnedSplits[1].percentage = 100

\* a small amount served by a router whose split cache holds, for the same
\* tokens and hop limit, a SplitRoute of several sub-routes
C17_Witness ==
    /\ rcall.op = "find_split_route"
    /\ rcall.amount_in < min_split_amount
    /\ rcall.result.ok
    /\ rcall.calls = 2
    /\ router.enable_cache
    /\ \E key \in DOMAIN split_cache :
           /\ key.token_in = rcall.token_in
           /\ key.token_out = rcall.token_out
           /\ key.max_hops = unwrap_or(rcall.max_hops, MAX_HOPS)
           /\ Len(split_cache[key].value.routes) > 1
    /\ Len(ReturnedSplits) = 1
    /\ ReturnedSplits[1].percentage = 100

\* the hop limit a call was made with
RequestedHops == rcall.max_hops[1]

\* find_route keeps a hop limit of one or more
HopBoundFromOne ==
    (/\ rcall.op = "find_route"
     /\ rcall.max_hops # None
     /\ rcall.result.ok
     /\ RequestedHops >= 1) =>
        /\ Len(rcall.result.value.hops) <= RequestedHops
        /\ RequestedHops = 1 => Len(rcall.result.value.hops) = 1

\* C18: find_route with max_hops = h returns only routes of at most h
\* hops, for every h, every RouterConfig and every sequence of earlier
\* calls; with h = 1 the route has exactly one hop.
C18_HopBound ==
    (/\ rcall.op = "find_route"
     /\ rcall.max_hops # None
     /\ rcall.result.ok) =>
        /\ Len(rcall.result.value.hops) <= RequestedHops
        /\ RequestedHops = 1 => Len(rcall.result.value.hops) = 1

\* every pool at token_in gives less than the dust floor for amount_in, in
\* the simulation of the single-hop search and in that of the multi-hop one
AllBelowDust(token_in, amount_in) ==
    LET pools == GetPoolsForToken(graph, token_index, token_in)
    IN  \A i \in DOMAIN pools :
            /\ simulate_swap(pools[i], amount_in) < 100
            /\ ~simulate_swap_through_pool(pools[i], token_in, amount_in).ok

\* no route exists: the graph is empty, a token is unknown, the tokens are
\* not connected, or every candidate is below the dust floor
NoRouteExists(token_in, token_out, amount_in) ==
    \/ graph.edges = <<>>
    \/ token_in \notin DOMAIN token_index
    \/ token_out \notin DOMAIN token_index
    \/ ~HasPath(graph, token_index, token_in, token_out)
    \/ AllBelowDust(token_in, amount_in)

\* the searches return NoRouteFound when no route exists
SearchesFindNoRoute ==
    \A pair \in RouterPairs, amount_in \in RouterAmounts :
        NoRouteExists(pair[1], pair[2], amount_in) =>
            /\ find_best_single_hop_route(pair[1], pair[2], amount_in) = ErrNoRouteFound
            /\ \A max_hops \in RouterHops, pick \in HeapPicks :
                   find_best_multi_hop_route(pair[1], pair[2], amount_in,
                                             max_hops[1], pick)
                       = ErrNoRouteFound

\* a router without the cache returns NoRouteFound when no route exists
UncachedRouterFindsNoRoute ==
    (/\ rcall.op = "find_route"
     /\ ~router.enable_cache
     /\ NoRouteExists(rcall.token_in, rcall.token_out, rcall.amount_in)) =>
        rcall.result = ErrNoRouteFound

\* C19: when no route exists between token_in and token_out (empty graph,
\* unknown token, tokens not connected, every candidate below the dust
\* floor), find_best_single_hop_route, find_best_multi_hop_route and
\* find_route, for every max_hops and both parallel settings, return the
\* error NoRouteFound.
C19_NoRouteFound ==
    /\ SearchesFindNoRoute
    /\ (/\ rcall.op = "find_route"
        /\ NoRouteExists(rcall.token_in, rcall.token_out, rcall.amount_in)) =>
           rcall.result = ErrNoRouteFound

----------------------------------------------------------------------------
(* Properties of compute_swap_step *)

\* the step reached sqrt_price_target
TargetReached == swap_call.result.sqrt_price_next = swap_call.sqrt_price_target

\* a step that stops before the target takes the whole of amount_remaining
StepBeforeTargetTakesAll ==
    (/\ swap_call.op = "compute_swap_step"
     /\ ~TargetReached) =>
        swap_call.result.amount_in + swap_call.result.fee_amount
            = swap_call.amount_remaining

\* a step that reaches the target takes at most one unit above amount_remaining
StepTakesAtMostOneMore ==
    swap_call.op = "compute_swap_step" =>
        swap_call.result.amount_in + swap_call.result.fee_amount
            <= swap_call.amount_remaining + 1

\* C24: for fee_pips = 3000, a liquidity above zero and an amount_remaining
\* above zero, compute_swap_step returns amount_in + fee_amount of at most
\* amount_remaining, whether the step reaches the target price or not.
C24_StepWithinRemaining ==
    (/\ swap_call.op = "compute_swap_step"
     /\ swap_call.fee_pips = 3000
     /\ swap_call.liquidity > 0
     /\ swap_call.amount_remaining > 0) =>
        swap_call.result.amount_in + swap_call.result.fee_amount
            <= swap_call.amount_remaining

----------------------------------------------------------------------------
(* Properties of get_pool *)

\* get_pool returns a pool exactly for the ids that were installed
GetPoolFindsInstalled ==
    \A pool_id \in PoolIds :
        GetPool(graph, pool_index, pool_id) # NoPool <=> pool_id \in InstalledIds

\* the pools installed on the token pair of the latest pool of pool_id
SamePairIds(pool_id) ==
    {c.pool_id : c \in {x \in Range(calls) :
                           {x.token0, x.token1} =
                               {LatestCall(calls, pool_id).token0,
                                LatestCall(calls, pool_id).token1}}}

\* get_pool returns the pool of the id when no other pool is on its pair
GetPoolAloneOnPair ==
    \A pool_id \in InstalledIds :
        SamePairIds(pool_id) = {pool_id} =>
            GetPool(graph, pool_index, pool_id).pool_id = pool_id

\* C26: get_pool(pool_id) returns a PoolEdge whose pool_id is pool_id for
\* every id that was installed with upsert_pool, and None for every other
\* id, also when several pools are installed on the same token pair.
C26_GetPoolById ==
    \A pool_id \in PoolIds :
        IF pool_id \in InstalledIds
        THEN GetPool(graph, pool_index, pool_id).pool_id = pool_id
        ELSE GetPool(graph, pool_index, pool_id) = NoPool

----------------------------------------------------------------------------
(* Properties of find_routes_parallel *)

\* the routes of every task, as they are on the graph of the call
TaskRouteSet ==
    UNION {Range(TaskRoutes(par, hops)) : hops \in 1..par.max_hops}

\* how many times route occurs in the list routes
Occurrences(routes, route) == Cardinality({i \in DOMAIN routes : routes[i] = route})

\* C23: find_routes_parallel returns the routes of the tasks of all hop
\* counts 1..min(max_hops, 4), merged and sorted by descending
\* total_amount_out, the same list in whatever order the tasks finish;
\* find_best_route_parallel returns the head of the list, whose
\* total_amount_out is at least that of every route of every task.
C23_ParallelMerge ==
    par.phase = "done" =>
        /\ par.max_hops = Min(par.requested_hops, 4)
        /\ par.routes = find_routes_parallel(par.token_in, par.token_out, par.amount_in,
                                             par.requested_hops, par.pick)
        /\ SortedByOutput(par.routes)
        /\ \A route \in TaskRouteSet \cup Range(par.routes) :
               Occurrences(par.routes, route)
                   = Occurrences(Flatten(par.all_routes, hop_counts(par.max_hops)), route)
        /\ par.best = (IF par.routes = <<>> THEN None ELSE Some(Head(par.routes)))
        /\ \A route \in TaskRouteSet :
               /\ par.best # None
               /\ par.best[1].total_amount_out >= route.total_amount_out

\* a call whose tasks finished out of the order of their hop counts, two of
\* them with routes of the same output, so that gathering the results in
\* the order of finishing would give another list
C23_Witness ==
    /\ par.phase = "done"
    /\ par.op = "find_best_route_parallel"
    /\ \E i, j \in DOMAIN par.finished : i < j /\ par.finished[i] > par.finished[j]
    /\ SortByOutput(Flatten(par.all_routes, par.finished)) # par.routes
    /\ \E g, h \in 1..par.max_hops :
           /\ g < h
           /\ \E a \in Range(par.all_routes[g]), b \in Range(par.all_routes[h]) :
                  a # b /\ a.total_amount_out = b.total_amount_out
    /\ par.best = Some(Head(par.routes))

----------------------------------------------------------------------------
(* Properties of the amounts of a route *)

\* every pool of the route has liquidity
LiquidPools(route) == \A i \in DOMAIN route.hops : route.hops[i].pool.liquidity > 0

\* every route a search returns gives more than nothing
RoutesGiveOutput ==
    sphase = "done" =>
        \A route \in Range(result.routes) : route.total_amount_out > 0

\* C25: every route through pools with liquidity, at any price of the pools,
\* has a total_amount_out above zero and below its total_amount_in, and
\* every hop gives at most amount_in * (1 - fee / 1e6).
C25_OutputBelowInput ==
    sphase = "done" =>
        \A route \in Range(result.routes) :
            LiquidPools(route) =>
                /\ route.total_amount_out > 0
                /\ route.total_amount_out < route.total_amount_in
                /\ \A i \in DOMAIN route.hops :
                       route.hops[i].amount_out * 1000000
                           <= route.hops[i].amount_in * (1000000 - route.hops[i].pool.fee)

----------------------------------------------------------------------------
(* Properties of the LruCache under concurrent calls with clear *)

\* the keys of the map that are not in the deque
KeysOutOfOrder == DOMAIN cache \ Range(access_order)

\* a key of the map is out of the deque only while a call is in progress
MapKeysInDequeAtRest == CacheActive = {} => KeysOutOfOrder = {}

\* C27: in every reachable state of concurrently running insert, get,
\* eviction and clear calls on one LruCache, every key of the map is in the
\* access_order deque.
C27_MapKeysInDeque == KeysOutOfOrder = {}

----------------------------------------------------------------------------
(* Properties of Router::get_quote and of the caches over time *)

\* C22: every successful get_quote returns a quote whose amount_in is the
\* decimal string of the requested amount and whose route has the requested
\* amount as its total_amount_in, whatever was served and cached before.
C22_QuoteForRequestedAmount ==
    (rcall.op = "get_quote" /\ rcall.result.ok) =>
        /\ rcall.result.value.amount_in = ToDecimalString(rcall.call.amount_in)
        /\ rcall.result.value.route.total_amount_in = rcall.call.amount_in

\* C30: a response of GET /v1/quote with cached = true carries a quote that
\* was computed for the slippage and the max_hops of the request it answers.
C30_CachedQuoteForOwnRequest ==
    (rcall.op = "GET /v1/quote" /\ rcall.status = 200 /\ rcall.cached) =>
        /\ SlippageBps(rcall.computed_for.slippage) = SlippageBps(rcall.call.slippage)
        /\ unwrap_or(rcall.computed_for.max_hops, MAX_HOPS)
               = unwrap_or(rcall.call.max_hops, MAX_HOPS)
        /\ rcall.quote.amount_out_min
               = ToDecimalString(apply_slippage(rcall.quote.route.total_amount_out,
                                                SlippageBps(rcall.call.slippage)))

\* C28: the route of every quote get_quote returns was computed from the
\* graph at most cache_ttl_seconds before the call.
C28_QuoteStaleness ==
    (rcall.op = "get_quote" /\ rcall.result.ok) =>
        rcall.at - rcall.computed_at <= router.cache_ttl_seconds

\* the route cache alone keeps the bound: a route find_route returns was
\* computed less than cache_ttl_seconds before the call
FindRouteStaleness ==
    (rcall.op = "find_route" /\ rcall.result.ok) =>
        rcall.at - rcall.computed_at < router.cache_ttl_seconds

\* the latest earlier find_route call with the arguments of this one returned
\* a route, less than the TTL ago, and fewer than max_routes_cached
\* insertions of other keys followed it
SecondCallWithinTtl ==
    /\ rcall.op = "find_route"
    /\ router.enable_cache
    /\ rcall.earlier # None
    /\ rcall.earlier[1].result.ok
    /\ rcall.at - rcall.earlier[1].at < router.cache_ttl_seconds
    /\ rcall.earlier[1].others < router.max_routes

\* C21: with caching enabled a second find_route call with identical
\* arguments, within the TTL of the first and with fewer than
\* max_routes_cached other keys inserted in between, returns the result of the
\* first call, whatever pools were upserted in between.
C21_SecondCallEqualsFirst ==
    SecondCallWithinTtl => rcall.result = rcall.earlier[1].result

\* a sum over the keys of a map of numbers
RECURSIVE SumOver(_, _)
SumOver(m, keys) ==
    IF keys = {} THEN 0
    ELSE LET k == CHOOSE x \in keys : TRUE IN m[k] + SumOver(m, keys \ {k})

\* the insertions of other keys in the route cache since the router was built
OtherInsertions(key) == SumOver(served.inserts, DOMAIN served.inserts \ {key})

\* an earlier find_route call with the arguments of this one computed a route
\* less than the TTL ago, and fewer than max_routes_cached insertions of other
\* keys were made in the route cache since the router was built
SecondCallAfterComputedFirst ==
    /\ rcall.op = "find_route"
    /\ router.enable_cache
    /\ rcall.earlier # None
    /\ rcall.earlier[1].computed # None
    /\ rcall.at - rcall.earlier[1].computed[1].at < router.cache_ttl_seconds
    /\ OtherInsertions(RouteKeyOf(rcall.call)) < router.max_routes

\* C21, with the first call the one that computed the route and the other
\* keys counted from the start: the second call is served from the cache and
\* returns the result of the first, whatever pools were upserted in between.
C21_SecondCallEqualsComputedFirst ==
    SecondCallAfterComputedFirst =>
        /\ rcall.cached
        /\ rcall.result = rcall.earlier[1].computed[1].result

\* C21 witness: the second call returned the route of the first although a
\* pool that gives a better route was upserted in between, with another key
\* in the cache.
C21_Witness ==
    /\ SecondCallAfterComputedFirst
    /\ rcall.pools > rcall.earlier[1].computed[1].pools
    /\ rcall.result = rcall.earlier[1].computed[1].result
    /\ OtherInsertions(RouteKeyOf(rcall.call)) = 1
    /\ rcall.at > rcall.earlier[1].computed[1].at

RouterOps == {"find_route", "get_quote", "find_split_route"}

\* the step is a call of the router that returns an error
FailedCall ==
    /\ rcall'.calls = rcall.calls + 1
    /\ rcall'.op \in RouterOps
    /\ ~rcall'.result.ok

\* the map after of a cache holds no entry that the map before did not hold,
\* and lacks only entries that had expired
NothingCached(before, after) ==
    /\ DOMAIN after \subseteq DOMAIN before
    /\ \A k \in DOMAIN after : after[k] = before[k]
    /\ \A k \in DOMAIN before \ DOMAIN after :
           now - before[k].inserted_at >= router.cache_ttl_seconds

\* a route for the call exists on the graph as it is
RouteExists(call) ==
    SelectStrategy(call.token_in, call.token_out, call.amount_in,
                   unwrap_or(call.max_hops, MAX_HOPS), "first").ok

\* the call before the latest one had the same arguments and failed, a pool
\* was upserted between the two, and a route now exists
RetryAfterUpsert ==
    /\ rcall.op \in RouterOps
    /\ rcall.earlier # None
    /\ rcall.earlier[1].seq = rcall.calls - 1
    /\ ~rcall.earlier[1].result.ok
    /\ rcall.pools > rcall.earlier[1].pools
    /\ rcall.pools = Len(calls)
    /\ RouteExists(rcall.call)

\* C29 as stated: a call of find_route, get_quote or find_split_route that
\* returns an error leaves the three caches as they were, and the next
\* identical call after an upsert that creates a route succeeds.
C29_FailedCallLeavesCaches ==
    /\ [][FailedCall => UNCHANGED <<cache, access_order, split_cache, split_order,
                                    quote_cache, quote_order>>]_vars
    /\ [](RetryAfterUpsert => rcall.result.ok)

\* C29, with the expired entries a lookup removes: a call that returns an
\* error adds no entry to a cache and changes none, it removes at most entries
\* that had expired; the next identical call after an upsert that creates a
\* route succeeds.
C29_FailedCallCachesNothing ==
    /\ [][FailedCall => /\ NothingCached(cache, cache')
                        /\ NothingCached(split_cache, split_cache')
                        /\ NothingCached(quote_cache, quote_cache')
                        /\ UNCHANGED <<access_order, split_order, quote_order>>]_vars
    /\ [](RetryAfterUpsert => rcall.result.ok)

\* C29 witness: find_route failed at a time when the entry of its key had
\* expired, a pool was upserted, and the same call succeeded at once.
C29_Witness ==
    /\ RetryAfterUpsert
    /\ rcall.result.ok
    /\ rcall.at = rcall.earlier[1].at
    /\ \E c \in DOMAIN served.earlier :
           /\ RouteKeyOf(c) = RouteKeyOf(rcall.call)
           /\ c.op = rcall.op
           /\ served.earlier[c].computed # None
           /\ served.earlier[c].computed[1].at + router.cache_ttl_seconds
                  <= rcall.earlier[1].at

----------------------------------------------------------------------------
(* Properties of the amounts inside the routes and the split routes *)

RECURSIVE SumAmountIn(_)
SumAmountIn(split_routes) ==
    IF split_routes = <<>> THEN 0
    ELSE Head(split_routes).route.total_amount_in + SumAmountIn(Tail(split_routes))

\* C31: for every SplitRoute optimize_split_route returns for two or more
\* candidate routes, the total_amount_in of the sub-routes add up to
\* total_amount, which is also the total_amount_in of the SplitRoute: the
\* rounding of the percentages loses and creates no input.
C31_InputConserved ==
    (/\ split_call.op = "optimize_split_route"
     /\ Len(split_call.routes) >= 2) =>
        /\ split_call.result.ok
        /\ SumAmountIn(split_call.result.split.routes) = split_call.total_amount
        /\ split_call.result.split.total_amount_in = split_call.total_amount

\* the amounts of a route agree with those of its hops
AmountsChained(route) ==
    /\ route.hops # <<>>
    /\ route.total_amount_in = route.hops[1].amount_in
    /\ route.total_amount_out = route.hops[Len(route.hops)].amount_out
    /\ \A i \in 1..(Len(route.hops) - 1) :
           route.hops[i + 1].amount_in = route.hops[i].amount_out

\* C32: every route emitted, the scaled sub-routes of a SplitRoute returned
\* by optimize_split_route for well-formed candidates included, has
\* total_amount_in = hops[0].amount_in, total_amount_out =
\* hops.last.amount_out and hops[i+1].amount_in = hops[i].amount_out.
C32_RouteAmountsChained ==
    (/\ split_call.op = "optimize_split_route"
     /\ \A i \in DOMAIN split_call.routes : AmountsChained(split_call.routes[i])
     /\ split_call.result.ok) =>
        \A k \in DOMAIN split_call.result.split.routes :
            AmountsChained(split_call.result.split.routes[k].route)

\* C33: find_split_route called with max_splits = k returns a SplitRoute of
\* at most k sub-routes, whatever split routes earlier calls with another
\* max_splits left in the cache under the same key.
C33_AtMostMaxSplits ==
    (/\ rcall.op = "find_split_route"
     /\ rcall.max_splits # None
     /\ rcall.result.ok) =>
        Len(ReturnedSplits) <= rcall.max_splits[1]

\* every hop of the route pays out at least the dust floor
HopsAboveDust(route) == \A i \in DOMAIN route.hops : route.hops[i].amount_out >= 100

\* the pools of the graph that join the two tokens of the query
DirectPoolsOfQuery ==
    LET pools == GetPoolsForToken(graph, token_index, squery.token_in)
    IN  {pools[j] : j \in {i \in DOMAIN pools :
                              other_token(pools[i], squery.token_in) = squery.token_out}}

\* the pool has liquidity and its swap step pays out the dust floor for the
\* amount of the query, in the direction of the single-hop searches
PaysDustSingleHop(pool) ==
    /\ pool.liquidity # 0
    /\ compute_swap_step(pool.sqrt_price_x96,
                         IF squery.token_in = pool.token0
                         THEN tick_to_sqrt_price_x96(pool.tick - pool.tick_spacing)
                         ELSE tick_to_sqrt_price_x96(pool.tick + pool.tick_spacing),
                         pool.liquidity, squery.amount_in, pool.fee).amount_out >= 100

\* the same for the swap step of the multi-hop search
PaysDustMultiHop(pool) == simulate_swap(pool, squery.amount_in) >= 100

\* C34: no route returned by the single-hop searches or by find_top_routes
\* has a hop whose amount_out is below 100, and a candidate below 100 is
\* skipped without ending the search: the pools that pay out at least 100
\* are still found.
C34_DustFloor ==
    sphase = "done" =>
        /\ \A k \in DOMAIN result.routes : HopsAboveDust(result.routes[k])
        /\ squery.kind = "all_single_hop" =>
               \A pool \in DirectPoolsOfQuery :
                   PaysDustSingleHop(pool) =>
                       \E k \in DOMAIN result.routes : result.routes[k].hops[1].pool = pool
        /\ squery.kind = "best_single_hop" =>
               ((\E pool \in DirectPoolsOfQuery : PaysDustSingleHop(pool)) =>
                    result.routes # <<>>)
        /\ (/\ squery.kind \in {"top_routes", "best_multi_hop"}
            /\ squery.token_in # squery.token_out
            /\ squery.max_hops >= 1 /\ squery.top_n >= 1) =>
               ((\E pool \in DirectPoolsOfQuery : PaysDustMultiHop(pool)) =>
                    result.routes # <<>>)

\* a search that met a pool below the dust floor and returned the route
\* through another pool of the same pair
C34_Witness ==
    /\ sphase = "done"
    /\ squery.kind \in {"all_single_hop", "top_routes"}
    /\ \E pool \in DirectPoolsOfQuery : ~PaysDustSingleHop(pool) /\ ~PaysDustMultiHop(pool)
    /\ result.routes # <<>>
    /\ \A k \in DOMAIN result.routes : Len(result.routes[k].hops) = 1

\* the estimate for one pool: 100_000, 50_000 more with a hook, 5_000 more
\* from a fee of 10_000 on
PerPoolGas(pool) ==
    100000 + (IF pool.hook_address # ZeroAddress THEN 50000 ELSE 0)
           + (IF pool.fee >= 10000 THEN 5000 ELSE 0)

RECURSIVE SumPerPoolGas(_)
SumPerPoolGas(hops) ==
    IF hops = <<>> THEN 0 ELSE PerPoolGas(Head(hops).pool) + SumPerPoolGas(Tail(hops))

\* C35: the gas_estimate of every route a search returns, single-hop or
\* multi-hop, is the sum of the per-pool estimates of its hops, so a
\* one-hop route has the same gas_estimate from either search.
C35_GasEstimate ==
    sphase = "done" =>
        \A k \in DOMAIN result.routes :
            result.routes[k].gas_estimate = SumPerPoolGas(result.routes[k].hops)

\* what find_all_single_hop_routes finds for the query on the graph as it is
SingleHopAnswer ==
    SingleHopRoutes(GetPoolsForToken(graph, token_index, squery.token_in),
                    squery.token_in, squery.token_out, squery.amount_in)

C37_BestPerTokenNeverDecreases ==
    [][(sphase = "loop" /\ sphase' = "loop") =>
           \A token \in DOMAIN best_per_token :
               /\ token \in DOMAIN best_per_token'
               /\ best_per_token'[token] >= best_per_token[token]]_vars

\* the pool ids along the path of a heap state
RECURSIVE PathPoolIds(_)
PathPoolIds(path) == IF path = <<>> THEN <<>> ELSE <<Head(path).pool_id>> \o PathPoolIds(Tail(path))

\* a sequence of pool ids at or before another in lexicographic order
RECURSIVE LexLeq(_, _)
LexLeq(a, b) ==
    IF a = <<>> THEN TRUE
    ELSE IF b = <<>> THEN FALSE
    ELSE IF Head(a) # Head(b) THEN Head(a) < Head(b)
    ELSE LexLeq(Tail(a), Tail(b))

\* of two states of equal amount_out: fewer hops first, then the smaller
\* sequence of pool ids
PoppedBefore(a, b) ==
    \/ Len(a.path) < Len(b.path)
    \/ Len(a.path) = Len(b.path) /\ LexLeq(PathPoolIds(a.path), PathPoolIds(b.path))

\* the states of the largest amount_out that the tie-break puts first
Preferred == {i \in Largest : \A j \in Largest : PoppedBefore(heap[i], heap[j])}

\* C38: among the heap states of equal amount_out the loop of
\* find_top_routes pops the one with fewer hops, then the one with the
\* lexicographically smaller sequence of pool ids.
C38_TieBreakOrder ==
    [][(sphase = "loop" /\ sphase' = "loop") =>
           \E i \in Preferred :
               /\ Len(heap') >= Len(heap) - 1
               /\ SubSeq(heap', 1, Len(heap) - 1) = RemoveAt(heap, i)]_vars

\* the only state heap.pop() can return is at the destination and
\* build_route fails for it
BuildRouteFails(i) ==
    /\ sphase = "loop"
    /\ Largest = {i}
    /\ heap[i].token = squery.token_out
    /\ ~build_route(heap[i], squery.amount_in).ok

\* C39: when build_route fails for the path of a popped state (a token that
\* is not in the next pool, or an empty path) the search ends there and its
\* caller gets InternalError; the path is never dropped with the search
\* going on or returning a list of routes.
C39_BuildErrorSurfaces ==
    [][\A i \in DOMAIN heap :
           BuildRouteFails(i) =>
               /\ sphase' = "done"
               /\ "error" \in DOMAIN result'
               /\ result'.error = "InternalError"]_vars

----------------------------------------------------------------------------
(* Properties of the rounding of compute_swap_step *)

\* the step of the latest call goes from token0 to token1
StepZeroForOne == swap_call.sqrt_price_current >= swap_call.sqrt_price_target

\* the two prices the step moved between
StepLower == Min(swap_call.sqrt_price_current, swap_call.result.sqrt_price_next)
StepUpper == IF swap_call.sqrt_price_current = StepLower
             THEN swap_call.result.sqrt_price_next ELSE swap_call.sqrt_price_current

\* amount is at least (at most) the exact token0 delta
\* L * Q96 * (upper - lower) / (upper * lower) between the two prices
AtLeastAmount0(amount) ==
    amount * (StepUpper * StepLower) >= swap_call.liquidity * Q96 * (StepUpper - StepLower)
AtMostAmount0(amount) ==
    amount * (StepUpper * StepLower) <= swap_call.liquidity * Q96 * (StepUpper - StepLower)

\* amount is at least (at most) the exact token1 delta L * (upper - lower) / Q96
AtLeastAmount1(amount) ==
    amount * Q96 >= swap_call.liquidity * (StepUpper - StepLower)
AtMostAmount1(amount) ==
    amount * Q96 <= swap_call.liquidity * (StepUpper - StepLower)

\* the amount_in returned is the input-side delta rounded up
AmountInRoundedUp ==
    swap_call.op = "compute_swap_step" =>
        IF StepZeroForOne THEN AtLeastAmount0(swap_call.result.amount_in)
        ELSE AtLeastAmount1(swap_call.result.amount_in)

\* C40: compute_swap_step rounds amount_in, the input-side delta, up and
\* amount_out, the output-side delta, down: amount_out is never above the
\* exact token delta between sqrt_price_current and sqrt_price_next, in
\* both directions and whether the step reaches the target or not.
C40_RoundingDirection ==
    swap_call.op = "compute_swap_step" =>
        /\ IF StepZeroForOne THEN AtLeastAmount0(swap_call.result.amount_in)
           ELSE AtLeastAmount1(swap_call.result.amount_in)
        /\ IF StepZeroForOne THEN AtMostAmount1(swap_call.result.amount_out)
           ELSE AtMostAmount0(swap_call.result.amount_out)

====
